---- MODULE Spec2Model ----
(***************************************************************************)
(* FilterQuerySchemaBuilder (mikro-orm-filter-query-schema): a builder     *)
(* that registers fields, builds a Zod schema for filter documents and     *)
(* validates documents with it.                                            *)
(*                                                                         *)
(* State: the argument the constructor was given (override), the argument  *)
(* of the last addField call (added), the builder                          *)
(* (options, fieldOptionsMap), the schema returned by the last build()     *)
(* (the limits and field declarations its closures captured), the last     *)
(* document handed to schema.safeParse with its result, the validated      *)
(* document as the rewrite leaves it (validated), and the arguments        *)
(* of every call made to a replacement callback, in call order             *)
(* (invocations).  Beside the builder, the object a caller hands to        *)
(* setNestedValue (object) and the calls made on it, in order (writes).     *)
(***************************************************************************)
EXTENDS Integers, Sequences, FiniteSets, TLC

VARIABLES override, added, options, fieldOptionsMap, schema, input, result, invocations,
          object, writes, validated

vars == <<override, added, options, fieldOptionsMap, schema, input, result, invocations,
          object, writes, validated>>

---------------------------------------------------------------------------
(* Bounds of the model.                                                    *)

\* Largest value given to a limit by an override; documents nest, branch,
\* condition and list one step further (MaxLimit + 1).
MaxLimit == 2

---------------------------------------------------------------------------
(* JavaScript values, tagged by kind.  An object is the sequence of its    *)
(* own enumerable entries in Object.entries order, with distinct keys.     *)

Str(s) == [k |-> "string", s |-> s]
Num(n) == [k |-> "number", n |-> n]
Bool(b) == [k |-> "boolean", b |-> b]
Null == [k |-> "null"]
Undefined == [k |-> "undefined"]
\* a (valid) Date instance
DateObj == [k |-> "date"]
Arr(items) == [k |-> "array", items |-> items]
Obj(ent) == [k |-> "object", ent |-> ent]
Entry(key, val) == [key |-> key, val |-> val]

\* n copies of v
RECURSIVE Rep(_, _)
Rep(v, n) == IF n = 0 THEN <<>> ELSE <<v>> \o Rep(v, n - 1)

\* as if the test were typeof "object" alone, which null and arrays pass
isObject_typeof(v) == v.k \in {"object", "date", "array", "null"}

\* Zod's test for "an object": typeof "object", not null, not an array.
\* A Date instance passes it and has no own enumerable keys.
isObject(v) == v.k \in {"object", "date"}

ObjectEntries(v) == IF v.k = "object" THEN v.ent ELSE <<>>

ObjectKeys(v) == {ObjectEntries(v)[i].key : i \in DOMAIN ObjectEntries(v)}

\* typeof v === "object": objects, arrays, Date instances and null
typeofObject(v) == v.k \in {"object", "array", "date", "null"}

\* the named properties of an object, or of an array or Date given some
Props(v) == IF "ent" \in DOMAIN v THEN v.ent ELSE <<>>

WithProps(v, ent) ==
    CASE v.k = "object" -> Obj(ent)
      [] v.k = "array" -> [k |-> "array", items |-> v.items, ent |-> ent]
      [] OTHER -> [k |-> v.k, ent |-> ent]

\* key in v, v[key]
HasProp(v, key) == \E i \in DOMAIN Props(v) : Props(v)[i].key = key
GetProp(v, key) == Props(v)[CHOOSE i \in DOMAIN Props(v) : Props(v)[i].key = key].val

\* v[key] = val: a key already there keeps its place, a new one goes last
SetProp(v, key, val) ==
    WithProps(v, IF HasProp(v, key)
                 THEN [i \in DOMAIN Props(v) |->
                         IF Props(v)[i].key = key THEN Entry(key, val) ELSE Props(v)[i]]
                 ELSE Append(Props(v), Entry(key, val)))

\* strings the ISO grammars of z.iso.datetime({offset, local}) and z.iso.date() accept
IsoDatetimeStrings == {"2024-01-15T10:30:00Z"}
IsoDateStrings == {"2024-01-15"}

---------------------------------------------------------------------------
(* The operator whitelist of parseFieldValue.                              *)

isOperator(key) ==
    key \in {"$eq", "$ne", "$lt", "$gt", "$lte", "$gte", "$in", "$nin",
             "$fulltext", "$contains", "$overlap"}

---------------------------------------------------------------------------
(* getValueSchema(type): does the schema of the type accept v.             *)

getValueSchema(type, v) ==
    CASE type = "string" -> v.k = "string"
      [] type = "number" -> v.k = "number"
      [] type = "boolean" -> v.k = "boolean"
      [] type = "date" ->
            \/ v.k = "string" /\ v.s \in IsoDatetimeStrings
            \/ v.k = "string" /\ v.s \in IsoDateStrings
            \/ v.k = "date"

\* z.union([valueSchema, z.null()])
valueWithNull(type, v) == getValueSchema(type, v) \/ v.k = "null"

\* z.array(valueWithNull).max(maxArrayLength)
arrayOfValueWithNull(type, maxArrayLength, v) ==
    /\ v.k = "array"
    /\ Len(v.items) <= maxArrayLength
    /\ \A i \in DOMAIN v.items : valueWithNull(type, v.items[i])

\* as if .max(maxArrayLength) were left out of $contains and $overlap
arrayOfValue_noMax(type, maxArrayLength, v) ==
    /\ v.k = "array"
    /\ \A i \in DOMAIN v.items : getValueSchema(type, v.items[i])

\* z.array(valueSchema).max(maxArrayLength)
arrayOfValue(type, maxArrayLength, v) ==
    /\ v.k = "array"
    /\ Len(v.items) <= maxArrayLength
    /\ \A i \in DOMAIN v.items : getValueSchema(type, v.items[i])

\* as if the ordering operators were added for every type
comparisonFields_orderingForAll(type, array, fulltext) ==
    {"$eq", "$ne", "$gt", "$gte", "$lt", "$lte", "$in", "$nin"}
      \cup (IF array THEN {"$contains", "$overlap"} ELSE {})
      \cup (IF fulltext THEN {"$fulltext"} ELSE {})

\* as if $contains and $overlap were added whatever the array flag
comparisonFields_arrayForAll(type, array, fulltext) ==
    {"$eq", "$ne"}
      \cup (IF type = "number" \/ type = "date"
            THEN {"$gt", "$gte", "$lt", "$lte"} ELSE {})
      \cup {"$in", "$nin", "$contains", "$overlap"}
      \cup (IF fulltext THEN {"$fulltext"} ELSE {})

\* the keys of comparisonFields for a field of the type with the flags
comparisonFields(type, array, fulltext) ==
    {"$eq", "$ne"}
      \cup (IF type = "number" \/ type = "date"
            THEN {"$gt", "$gte", "$lt", "$lte"} ELSE {})
      \cup {"$in", "$nin"}
      \cup (IF array THEN {"$contains", "$overlap"} ELSE {})
      \cup (IF fulltext THEN {"$fulltext"} ELSE {})

\* as if $gt, $gte, $lt, $lte took the nullable schema of $eq and $ne
comparisonField_nullableOrdering(type, maxArrayLength, key, v) ==
    CASE key \in {"$eq", "$ne", "$gt", "$gte", "$lt", "$lte"} -> valueWithNull(type, v)
      [] key \in {"$in", "$nin"} -> arrayOfValueWithNull(type, maxArrayLength, v)
      [] key \in {"$contains", "$overlap"} -> arrayOfValue(type, maxArrayLength, v)
      [] key = "$fulltext" -> getValueSchema(type, v)
      [] OTHER -> FALSE

\* the schema comparisonFields holds under the key, applied to the operand v
comparisonField(type, maxArrayLength, key, v) ==
    CASE key \in {"$eq", "$ne"} -> valueWithNull(type, v)
      [] key \in {"$gt", "$gte", "$lt", "$lte"} -> getValueSchema(type, v)
      [] key \in {"$in", "$nin"} -> arrayOfValueWithNull(type, maxArrayLength, v)
      [] key \in {"$contains", "$overlap"} -> arrayOfValue(type, maxArrayLength, v)
      [] key = "$fulltext" -> getValueSchema(type, v)
      [] OTHER -> FALSE

\* z.object(comparisonFields).strict()
comparisonObjectSchema(type, maxArrayLength, array, fulltext, v) ==
    /\ isObject(v)
    /\ \A i \in DOMAIN ObjectEntries(v) :
          LET e == ObjectEntries(v)[i] IN
            /\ e.key \in comparisonFields(type, array, fulltext)
            /\ comparisonField(type, maxArrayLength, e.key, e.val)

\* createTypedComparisonSchema(type, maxArrayLength, {array, fulltext}):
\* z.union([valueSchema, z.null(), comparisonObjectSchema])
createTypedComparisonSchema(type, maxArrayLength, array, fulltext, v) ==
    \/ getValueSchema(type, v)
    \/ v.k = "null"
    \/ comparisonObjectSchema(type, maxArrayLength, array, fulltext, v)

---------------------------------------------------------------------------
(* build(): the schema of a filter document.  s is what the closures of    *)
(* build() captured: the four limits and the field declarations.           *)

fieldNames(fields) == {fields[i].field : i \in DOMAIN fields}

\* the declaration registered under the name
fieldOf(fields, name) ==
    fields[CHOOSE i \in DOMAIN fields : fields[i].field = name]

\* as if a field with a replacement rule took any value
fieldSchemas_ruleDecides(s, key, v) ==
    LET field == fieldOf(s.fields, key) IN
      \/ field.replacement.kind # "none"
      \/ createTypedComparisonSchema(field.type, s.maxArrayLength,
                                     field.array, field.fulltext, v)

\* fieldSchemas[key] applied to v
fieldSchemas(s, key, v) ==
    LET field == fieldOf(s.fields, key) IN
      createTypedComparisonSchema(field.type, s.maxArrayLength,
                                  field.array, field.fulltext, v)

LogicalKeys == {"$and", "$or", "$not"}

\* as if the depth test were currentDepth > maxDepth
shapeKeys_offByOne(s, currentDepth) ==
    IF currentDepth > s.maxDepth
    THEN fieldNames(s.fields)
    ELSE LogicalKeys \cup fieldNames(s.fields)

\* as if $not were left out of the shape below max depth
shapeKeys_withoutNot(s, currentDepth) ==
    IF currentDepth >= s.maxDepth
    THEN fieldNames(s.fields)
    ELSE {"$and", "$or"} \cup fieldNames(s.fields)

\* the keys of the z.object shape at the depth: at max depth the fields only,
\* below it $and, $or, $not and then ...fieldSchemas
shapeKeys(s, currentDepth) ==
    IF currentDepth >= s.maxDepth
    THEN fieldNames(s.fields)
    ELSE LogicalKeys \cup fieldNames(s.fields)

\* as if .strict() were left out: unknown keys pass
strict_stripUnknown(s, currentDepth, v) == TRUE

\* .strict(): no key outside the shape
strict(s, currentDepth, v) == ObjectKeys(v) \subseteq shapeKeys(s, currentDepth)

\* as if the bound on $or were exclusive
maxOrBranches_exclusive(s, v) == Len(v.items) < s.maxOrBranches

\* .max(maxOrBranches) of the $or array
maxOrBranches(s, v) == Len(v.items) <= s.maxOrBranches

\* as if the refinement below max depth counted every key, as the one at max depth does
refine_countsLogicalKeys(s, currentDepth, v) ==
    Cardinality(ObjectKeys(v)) <= s.maxConditions

\* as if the refinements compared with < instead of <=
refine_exclusive(s, currentDepth, v) ==
    IF currentDepth >= s.maxDepth
    THEN Cardinality(ObjectKeys(v)) < s.maxConditions
    ELSE Cardinality(ObjectKeys(v) \ LogicalKeys) < s.maxConditions

\* .refine(...): the number of conditions of the object
refine(s, currentDepth, v) ==
    IF currentDepth >= s.maxDepth
    THEN Cardinality(ObjectKeys(v)) <= s.maxConditions
    ELSE Cardinality(ObjectKeys(v) \ LogicalKeys) <= s.maxConditions

\* as if $and had the .max(maxOrBranches) of $or
RECURSIVE createFilterSchema_andBounded(_, _, _)
createFilterSchema_andBounded(s, currentDepth, v) ==
    /\ isObject(v)
    /\ strict(s, currentDepth, v)
    /\ \A i \in DOMAIN ObjectEntries(v) :
          LET e == ObjectEntries(v)[i] IN
            IF e.key \in fieldNames(s.fields)
            THEN fieldSchemas(s, e.key, e.val)
            ELSE CASE e.key \in {"$and", "$or"} ->
                        /\ e.val.k = "array"
                        /\ maxOrBranches(s, e.val)
                        /\ \A j \in DOMAIN e.val.items :
                              createFilterSchema_andBounded(s, currentDepth + 1, e.val.items[j])
                   [] e.key = "$not" ->
                        createFilterSchema_andBounded(s, currentDepth + 1, e.val)
                   [] OTHER -> TRUE
    /\ refine(s, currentDepth, v)

\* createFilterSchema(currentDepth), applied to v
RECURSIVE createFilterSchema(_, _, _)
createFilterSchema(s, currentDepth, v) ==
    /\ isObject(v)
    /\ strict(s, currentDepth, v)
    /\ \A i \in DOMAIN ObjectEntries(v) :
          LET e == ObjectEntries(v)[i] IN
            \* ...fieldSchemas is spread last: a field's schema replaces a logical key's
            IF e.key \in fieldNames(s.fields)
            THEN fieldSchemas(s, e.key, e.val)
            ELSE CASE e.key = "$and" ->
                        /\ e.val.k = "array"
                        /\ \A j \in DOMAIN e.val.items :
                              createFilterSchema(s, currentDepth + 1, e.val.items[j])
                   [] e.key = "$or" ->
                        /\ e.val.k = "array"
                        /\ maxOrBranches(s, e.val)
                        /\ \A j \in DOMAIN e.val.items :
                              createFilterSchema(s, currentDepth + 1, e.val.items[j])
                   [] e.key = "$not" ->
                        createFilterSchema(s, currentDepth + 1, e.val)
                   [] OTHER -> TRUE
    /\ refine(s, currentDepth, v)

---------------------------------------------------------------------------
(* The value a schema hands on when it accepts: z.object builds a new       *)
(* object with the keys of its shape that the input holds, in shape order;  *)
(* z.union hands on the value of the first option that accepts.            *)

\* the keys of comparisonFields in the order they are assigned
comparisonFieldsOrder(type, array, fulltext) ==
    <<"$eq", "$ne">>
      \o (IF type = "number" \/ type = "date"
          THEN <<"$gt", "$gte", "$lt", "$lte">> ELSE <<>>)
      \o <<"$in", "$nin">>
      \o (IF array THEN <<"$contains", "$overlap">> ELSE <<>>)
      \o (IF fulltext THEN <<"$fulltext">> ELSE <<>>)

\* the keys of the shape that v holds, in shape order
PresentKeys(shape, v) == SelectSeq(shape, LAMBDA key : key \in ObjectKeys(v))

\* the value of comparisonObjectSchema: operands are handed on as they are
comparisonObjectData(type, array, fulltext, v) ==
    LET keys == PresentKeys(comparisonFieldsOrder(type, array, fulltext), v) IN
      Obj([i \in DOMAIN keys |-> Entry(keys[i], GetProp(v, keys[i]))])

\* as if a bare value and $eq were turned into $fulltext on a fulltext field
createTypedComparisonData_translates(type, array, fulltext, v) ==
    IF v.k = "null" THEN v
    ELSE IF getValueSchema(type, v)
    THEN (IF fulltext THEN Obj(<<Entry("$fulltext", v)>>) ELSE v)
    ELSE LET data == comparisonObjectData(type, array, fulltext, v) IN
           IF fulltext
           THEN Obj([i \in DOMAIN data.ent |->
                       IF data.ent[i].key = "$eq"
                       THEN Entry("$fulltext", data.ent[i].val) ELSE data.ent[i]])
           ELSE data

\* the value of z.union([valueSchema, z.null(), comparisonObjectSchema])
createTypedComparisonData(type, array, fulltext, v) ==
    IF getValueSchema(type, v) \/ v.k = "null"
    THEN v
    ELSE comparisonObjectData(type, array, fulltext, v)

\* the keys of the z.object shape at the depth, in order: $and, $or, $not
\* below max depth, then the fields in registration order
shapeOrder(s, currentDepth) ==
    (IF currentDepth >= s.maxDepth THEN <<>> ELSE <<"$and", "$or", "$not">>)
      \o [i \in DOMAIN s.fields |-> s.fields[i].field]

\* the value of createFilterSchema(currentDepth) for a document it accepts
RECURSIVE createFilterData(_, _, _)
createFilterData(s, currentDepth, v) ==
    LET keys == PresentKeys(shapeOrder(s, currentDepth), v) IN
      Obj([i \in DOMAIN keys |->
             LET key == keys[i]
                 val == GetProp(v, key)
             IN Entry(key,
                  IF key \in fieldNames(s.fields)
                  THEN LET field == fieldOf(s.fields, key) IN
                         createTypedComparisonData(field.type, field.array, field.fulltext, val)
                  ELSE IF key = "$not"
                  THEN createFilterData(s, currentDepth + 1, val)
                  ELSE IF val.k = "array"
                  THEN Arr([j \in DOMAIN val.items |->
                              createFilterData(s, currentDepth + 1, val.items[j])])
                  ELSE val)])

---------------------------------------------------------------------------
(* The issues a schema raises when it rejects (Zod 4).  An issue holds its  *)
(* code, the path of the value it is about and whether parsing continues    *)
(* after it; an object collects the issues of all its properties, then its  *)
(* unrecognized keys, and runs its checks unless an issue aborted it; a     *)
(* union that no option accepts hands on the issues of its one option that  *)
(* did not abort, or else one invalid_union issue.                          *)

\* a message built from a template and the value interpolated into it
Message(template, value) == [template |-> template, value |-> value]

invalid_type(expected) ==
    [code |-> "invalid_type", path |-> <<>>, continue |-> FALSE, expected |-> expected]
invalid_format(format) ==
    [code |-> "invalid_format", path |-> <<>>, continue |-> TRUE, format |-> format]
unrecognized_keys(keys) ==
    [code |-> "unrecognized_keys", path |-> <<>>, continue |-> FALSE, keys |-> keys]
invalid_union(errors) ==
    [code |-> "invalid_union", path |-> <<>>, continue |-> FALSE, errors |-> errors]
too_big(maximum, message) ==
    [code |-> "too_big", path |-> <<>>, continue |-> TRUE, origin |-> "array",
     maximum |-> maximum, message |-> message]
custom(message) ==
    [code |-> "custom", path |-> <<>>, continue |-> TRUE, message |-> message]

\* the issues of a property or element, under its key or index
prefixIssues(key, issues) ==
    [i \in DOMAIN issues |-> [issues[i] EXCEPT !.path = <<key>> \o @]]

\* util.aborted: some issue does not let parsing continue
aborted(issues) == \E i \in DOMAIN issues : ~issues[i].continue

\* as if parsing stopped at the first property or element with an issue
RECURSIVE Flatten_firstOnly(_)
Flatten_firstOnly(seqs) ==
    IF seqs = <<>> THEN <<>>
    ELSE IF Head(seqs) # <<>> THEN Head(seqs)
    ELSE Flatten_firstOnly(Tail(seqs))

\* the issues of all properties or elements, in order
RECURSIVE Flatten(_)
Flatten(seqs) == IF seqs = <<>> THEN <<>> ELSE Head(seqs) \o Flatten(Tail(seqs))

\* z.union over the issues of its options
handleUnionResults(results) ==
    IF \E i \in DOMAIN results : results[i] = <<>>
    THEN <<>>
    ELSE LET nonaborted == SelectSeq(results, LAMBDA r : ~aborted(r)) IN
           IF Len(nonaborted) = 1
           THEN nonaborted[1]
           ELSE <<invalid_union(results)>>

\* z.iso.datetime(...), z.iso.date()
isoIssues(format, accepted, v) ==
    IF v.k # "string" THEN <<invalid_type("string")>>
    ELSE IF v.s \in accepted THEN <<>>
    ELSE <<invalid_format(format)>>

getValueSchemaIssues(type, v) ==
    CASE type = "string" -> IF v.k = "string" THEN <<>> ELSE <<invalid_type("string")>>
      [] type = "number" -> IF v.k = "number" THEN <<>> ELSE <<invalid_type("number")>>
      [] type = "boolean" -> IF v.k = "boolean" THEN <<>> ELSE <<invalid_type("boolean")>>
      [] type = "date" ->
            handleUnionResults(<<isoIssues("datetime", IsoDatetimeStrings, v),
                                 isoIssues("date", IsoDateStrings, v),
                                 IF v.k = "date" THEN <<>> ELSE <<invalid_type("date")>>>>)

nullIssues(v) == IF v.k = "null" THEN <<>> ELSE <<invalid_type("null")>>

valueWithNullIssues(type, v) ==
    handleUnionResults(<<getValueSchemaIssues(type, v), nullIssues(v)>>)

\* the default message of a too_big issue of an array
TooBigMessage(maximum) == Message("Too big: expected array to have <=${maximum} items", maximum)

\* z.array(element).max(maximum): the issues of the elements, then the check
\* unless an element aborted
arrayIssues(elements, maximum, message, v) ==
    IF v.k # "array" THEN <<invalid_type("array")>>
    ELSE LET items == Flatten([j \in DOMAIN v.items |->
                                 prefixIssues(ToString(j - 1), elements[j])])
         IN items \o (IF ~aborted(items) /\ Len(v.items) > maximum
                      THEN <<too_big(maximum, message)>> ELSE <<>>)

comparisonFieldIssues(type, maxArrayLength, key, v) ==
    CASE key \in {"$eq", "$ne"} -> valueWithNullIssues(type, v)
      [] key \in {"$gt", "$gte", "$lt", "$lte", "$fulltext"} -> getValueSchemaIssues(type, v)
      [] key \in {"$in", "$nin"} ->
            arrayIssues([j \in DOMAIN v.items |-> valueWithNullIssues(type, v.items[j])],
                        maxArrayLength, TooBigMessage(maxArrayLength), v)
      [] key \in {"$contains", "$overlap"} ->
            arrayIssues([j \in DOMAIN v.items |-> getValueSchemaIssues(type, v.items[j])],
                        maxArrayLength, TooBigMessage(maxArrayLength), v)

\* the keys of v outside the shape, in the order v holds them
unrecognized(shape, v) ==
    LET keys == [i \in DOMAIN ObjectEntries(v) |-> ObjectEntries(v)[i].key]
    IN SelectSeq(keys, LAMBDA key : \A i \in DOMAIN shape : shape[i] # key)

unrecognizedIssues(shape, v) ==
    IF unrecognized(shape, v) = <<>> THEN <<>>
    ELSE <<unrecognized_keys(unrecognized(shape, v))>>

\* z.object(comparisonFields).strict()
comparisonObjectIssues(type, maxArrayLength, array, fulltext, v) ==
    IF ~isObject(v) THEN <<invalid_type("object")>>
    ELSE LET shape == comparisonFieldsOrder(type, array, fulltext)
             keys == PresentKeys(shape, v)
         IN Flatten([i \in DOMAIN keys |->
                       prefixIssues(keys[i],
                         comparisonFieldIssues(type, maxArrayLength, keys[i],
                                               GetProp(v, keys[i])))])
              \o unrecognizedIssues(shape, v)

\* z.union([valueSchema, z.null(), comparisonObjectSchema])
createTypedComparisonIssues(type, maxArrayLength, array, fulltext, v) ==
    handleUnionResults(<<getValueSchemaIssues(type, v),
                         nullIssues(v),
                         comparisonObjectIssues(type, maxArrayLength, array, fulltext, v)>>)

\* as if .max(maxOrBranches) were given no message
OrMessage_default(s) == TooBigMessage(s.maxOrBranches)

\* the messages build() gives to .max of $or and to the two refinements
OrMessage(s) == Message("$or cannot have more than ${maxOrBranches} branches", s.maxOrBranches)
RefineMessage(s, currentDepth) ==
    IF currentDepth >= s.maxDepth
    THEN Message("Filter cannot have more than ${maxConditions} conditions", s.maxConditions)
    ELSE Message("Filter cannot have more than ${maxConditions} field conditions",
                 s.maxConditions)

\* the issues of createFilterSchema(currentDepth) for v
RECURSIVE createFilterIssues(_, _, _)
createFilterIssues(s, currentDepth, v) ==
    IF ~isObject(v) THEN <<invalid_type("object")>>
    ELSE LET shape == shapeOrder(s, currentDepth)
             keys == PresentKeys(shape, v)
             nested(item) == createFilterIssues(s, currentDepth + 1, item)
             property(key, val) ==
                 IF key \in fieldNames(s.fields)
                 THEN LET field == fieldOf(s.fields, key) IN
                        createTypedComparisonIssues(field.type, s.maxArrayLength,
                                                    field.array, field.fulltext, val)
                 ELSE IF key = "$not" THEN nested(val)
                 ELSE IF val.k # "array" THEN <<invalid_type("array")>>
                 \* .max(maxOrBranches) is on $or alone: $and passes at its own length
                 ELSE arrayIssues([j \in DOMAIN val.items |-> nested(val.items[j])],
                                  IF key = "$or" THEN s.maxOrBranches ELSE Len(val.items),
                                  OrMessage(s), val)
             issues == Flatten([i \in DOMAIN keys |->
                                  prefixIssues(keys[i], property(keys[i], GetProp(v, keys[i])))])
                         \o unrecognizedIssues(shape, v)
         IN issues \o (IF ~aborted(issues) /\ ~refine(s, currentDepth, v)
                       THEN <<custom(RefineMessage(s, currentDepth))>> ELSE <<>>)

---------------------------------------------------------------------------
(* Replacement rules.  A string rule is a dotted path; a callback rule is   *)
(* a function of the caller, named here by what it returns.                *)

\* path.split(".") for the paths the callers declare
split(path) ==
    CASE path = "title" -> <<"title">>
      [] path = "author.name" -> <<"author", "name">>
      [] path = "author.age" -> <<"author", "age">>
      [] path = "a.b.c" -> <<"a", "b", "c">>
      [] path = "author" -> <<"author">>
      [] path = "a" -> <<"a">>
      [] path = "a.b" -> <<"a", "b">>

\* the callbacks of the callers: ({value}) => ({title: value}),
\* ({operator, value}) => operator === "$eq" ? {title: value} : {title: {[operator]: value}},
\* ({value}) => ({$or: [{title: value}, {content: value}]});
\* each call returns a new object
callback(fn, args) ==
    CASE fn = "title" -> Obj(<<Entry("title", args.value)>>)
      [] fn = "titleByOperator" ->
            IF args.operator = "$eq"
            THEN Obj(<<Entry("title", args.value)>>)
            ELSE Obj(<<Entry("title", Obj(<<Entry(args.operator, args.value)>>))>>)
      [] fn = "titleOrContent" ->
            Obj(<<Entry("$or", Arr(<<Obj(<<Entry("title", args.value)>>),
                                     Obj(<<Entry("content", args.value)>>)>>))>>)

hasStringReplacement(o) == o.replacement.kind = "string"
hasCallbackReplacement(o) == o.replacement.kind = "callback"

\* stringReplacementMap.has(key), callbackReplacementMap.has(key)
stringReplacementMap(s, key) ==
    key \in fieldNames(s.fields) /\ hasStringReplacement(fieldOf(s.fields, key))
callbackReplacementMap(s, key) ==
    /\ key \in fieldNames(s.fields)
    /\ ~hasStringReplacement(fieldOf(s.fields, key))
    /\ hasCallbackReplacement(fieldOf(s.fields, key))

hasTransforms(fields) ==
    \E i \in DOMAIN fields :
        hasStringReplacement(fields[i]) \/ hasCallbackReplacement(fields[i])

\* parseFieldValue(fieldValue): the (operator, value) pairs of a field value
parseFieldValue(fieldValue) ==
    IF fieldValue.k = "null" \/ ~typeofObject(fieldValue)
    THEN <<[operator |-> "$eq", value |-> fieldValue]>>
    ELSE LET entries == SelectSeq(ObjectEntries(fieldValue), LAMBDA e : isOperator(e.key)) IN
           [i \in DOMAIN entries |-> [operator |-> entries[i].key, value |-> entries[i].val]]

\* as if the value were written under the last part of the path, at the top
setNestedValue_flat(obj, parts, value) == SetProp(obj, parts[Len(parts)], value)

\* as if every intermediate were replaced by a new empty object
RECURSIVE setNestedValue_newIntermediates(_, _, _)
setNestedValue_newIntermediates(obj, parts, value) ==
    IF Len(parts) = 1
    THEN SetProp(obj, parts[1], value)
    ELSE SetProp(obj, parts[1],
                 setNestedValue_newIntermediates(Obj(<<>>), Tail(parts), value))

\* setNestedValue(obj, path, value), as the object obj has become
RECURSIVE setNestedValue(_, _, _)
setNestedValue(obj, parts, value) ==
    IF Len(parts) = 1
    THEN SetProp(obj, parts[1], value)
    ELSE LET part == parts[1]
             current == IF \/ ~HasProp(obj, part)
                           \/ ~typeofObject(GetProp(obj, part))
                           \/ GetProp(obj, part).k = "null"
                        THEN Obj(<<>>)
                        ELSE GetProp(obj, part)
         IN SetProp(obj, part, setNestedValue(current, Tail(parts), value))

\* as if a key already in the target were kept
RECURSIVE ObjectAssign_keepFirst(_, _)
ObjectAssign_keepFirst(target, source) ==
    IF source = <<>>
    THEN target
    ELSE ObjectAssign_keepFirst(IF HasProp(target, Head(source).key)
                                THEN target
                                ELSE SetProp(target, Head(source).key, Head(source).val),
                                Tail(source))

\* Object.assign(target, source)
RECURSIVE ObjectAssign(_, _)
ObjectAssign(target, source) ==
    IF source = <<>>
    THEN target
    ELSE ObjectAssign(SetProp(target, Head(source).key, Head(source).val), Tail(source))

\* the loop over parsed: each pair's replacement is merged into result
RECURSIVE mergeReplacements(_, _, _, _)
mergeReplacements(res, key, fn, parsed) ==
    IF parsed = <<>>
    THEN res
    ELSE LET replacement == callback(fn, [field |-> key,
                                          operator |-> Head(parsed).operator,
                                          value |-> Head(parsed).value])
         IN mergeReplacements(ObjectAssign(res, Props(replacement)), key, fn, Tail(parsed))

\* as if a field without a rule were not copied
applyField_dropsPlain(s, res, key, value) ==
    IF callbackReplacementMap(s, key)
    THEN mergeReplacements(res, key, fieldOf(s.fields, key).replacement.fn,
                           parseFieldValue(value))
    ELSE IF /\ stringReplacementMap(s, key)
            /\ fieldOf(s.fields, key).replacement.path # ""
    THEN setNestedValue(res, split(fieldOf(s.fields, key).replacement.path), value)
    ELSE res

\* the branch of applyReplacements for a field condition: callback rule,
\* string rule, or no rule
applyField(s, res, key, value) ==
    IF callbackReplacementMap(s, key)
    THEN mergeReplacements(res, key, fieldOf(s.fields, key).replacement.fn,
                           parseFieldValue(value))
    ELSE IF /\ stringReplacementMap(s, key)
            /\ fieldOf(s.fields, key).replacement.path # ""
    THEN setNestedValue(res, split(fieldOf(s.fields, key).replacement.path), value)
    ELSE SetProp(res, key, value)

\* applyReplacements(obj): the result object, built over Object.entries(obj)
RECURSIVE applyReplacements(_, _)
RECURSIVE applyEntries(_, _, _)
applyEntries(s, entries, res) ==
    IF entries = <<>>
    THEN res
    ELSE LET key == Head(entries).key
             value == Head(entries).val
         IN applyEntries(s, Tail(entries),
              IF key \in {"$and", "$or"} /\ value.k = "array"
              THEN SetProp(res, key,
                           Arr([i \in DOMAIN value.items |->
                                  applyReplacements(s, value.items[i])]))
              ELSE IF key = "$not" /\ typeofObject(value) /\ value.k # "null"
              THEN SetProp(res, key, applyReplacements(s, value))
              ELSE applyField(s, res, key, value))

applyReplacements(s, obj) == applyEntries(s, ObjectEntries(obj), Obj(<<>>))

\* the arguments of the calls applyReplacements(obj) makes to callbacks, in order
RECURSIVE callbackArgs(_, _)
RECURSIVE callbackArgsOfEntries(_, _)
callbackArgsOfEntries(s, entries) ==
    IF entries = <<>>
    THEN <<>>
    ELSE LET key == Head(entries).key
             value == Head(entries).val
             RECURSIVE ofItems(_)
             ofItems(items) ==
                 IF items = <<>> THEN <<>>
                 ELSE callbackArgs(s, Head(items)) \o ofItems(Tail(items))
         IN (IF key \in {"$and", "$or"} /\ value.k = "array"
             THEN ofItems(value.items)
             ELSE IF key = "$not" /\ typeofObject(value) /\ value.k # "null"
             THEN callbackArgs(s, value)
             ELSE IF callbackReplacementMap(s, key)
             THEN LET parsed == parseFieldValue(value) IN
                    [i \in DOMAIN parsed |->
                       [field |-> key, operator |-> parsed[i].operator, value |-> parsed[i].value]]
             ELSE <<>>)
              \o callbackArgsOfEntries(s, Tail(entries))

callbackArgs(s, obj) == callbackArgsOfEntries(s, ObjectEntries(obj))

---------------------------------------------------------------------------
(* The same rewrite with its sharing.  applyReplacements copies no value:   *)
(* an object of the validated document that it puts into the result (an     *)
(* operator object, a list operand, a Date) is the same object there, and a *)
(* write through the result is a write to the document.  Here the document  *)
(* holds those objects, the result refers to them by their place in the     *)
(* document, and both are handed on together.                               *)

\* a reference to the object at the place (keys and indices from the root)
Ref(place) == [k |-> "ref", place |-> place]

\* typeof v === "object" && v !== null
isObjectValue(v) == v.k = "ref" \/ (typeofObject(v) /\ v.k # "null")

isIndexOf(v, name) ==
    v.k = "array" /\ \E j \in DOMAIN v.items : ToString(j - 1) = name

indexOf(v, name) == CHOOSE j \in DOMAIN v.items : ToString(j - 1) = name

\* the value at the place in doc, and doc with the value at the place replaced
RECURSIVE GetAt(_, _)
GetAt(doc, place) ==
    IF place = <<>> THEN doc
    ELSE IF isIndexOf(doc, Head(place))
    THEN GetAt(doc.items[indexOf(doc, Head(place))], Tail(place))
    ELSE GetAt(GetProp(doc, Head(place)), Tail(place))

RECURSIVE SetAt(_, _, _)
SetAt(doc, place, v) ==
    IF place = <<>> THEN v
    ELSE IF isIndexOf(doc, Head(place))
    THEN [doc EXCEPT !.items[indexOf(doc, Head(place))] = SetAt(@, Tail(place), v)]
    ELSE SetProp(doc, Head(place), SetAt(GetProp(doc, Head(place)), Tail(place), v))

\* the value as the code holds it: an object by reference, anything else itself
held(v, place) == IF isObjectValue(v) /\ v.k # "ref" THEN Ref(place) ELSE v

\* v with every reference replaced by the object it refers to
RECURSIVE resolve(_, _)
resolve(v, doc) ==
    IF v.k = "ref" THEN resolve(GetAt(doc, v.place), doc)
    ELSE LET ent == [i \in DOMAIN Props(v) |->
                       Entry(Props(v)[i].key, resolve(Props(v)[i].val, doc))]
         IN CASE v.k = "object" -> Obj(ent)
              [] v.k = "array" ->
                    LET items == [j \in DOMAIN v.items |-> resolve(v.items[j], doc)] IN
                      IF ent = <<>> THEN Arr(items)
                      ELSE [k |-> "array", items |-> items, ent |-> ent]
              [] OTHER -> IF ent = <<>> THEN v ELSE WithProps(v, ent)

\* setNestedValue(obj, path, value) where obj may hold references: the pair
\* of obj and doc as the call leaves them
RECURSIVE setNestedValueShared(_, _, _, _)
setNestedValueShared(obj, parts, value, doc) ==
    IF Len(parts) = 1
    THEN [obj |-> SetProp(obj, parts[1], value), doc |-> doc]
    ELSE LET part == parts[1] IN
           IF HasProp(obj, part) /\ GetProp(obj, part).k = "ref"
           THEN \* current is an object of the document: the write lands there
                LET place == GetProp(obj, part).place
                    r == setNestedValueShared(GetAt(doc, place), Tail(parts), value, doc)
                IN [obj |-> obj, doc |-> SetAt(r.doc, place, r.obj)]
           ELSE LET current == IF \/ ~HasProp(obj, part)
                                  \/ ~typeofObject(GetProp(obj, part))
                                  \/ GetProp(obj, part).k = "null"
                               THEN Obj(<<>>)
                               ELSE GetProp(obj, part)
                    r == setNestedValueShared(current, Tail(parts), value, doc)
                IN [obj |-> SetProp(obj, part, r.obj), doc |-> r.doc]

\* parseFieldValue of the value at the place, each operand as the code holds it
parseFieldValueShared(doc, place) ==
    LET parsed == parseFieldValue(GetAt(doc, place)) IN
      [i \in DOMAIN parsed |->
         [operator |-> parsed[i].operator,
          value |-> IF isObjectValue(GetAt(doc, place))
                    THEN held(parsed[i].value, place \o <<parsed[i].operator>>)
                    ELSE parsed[i].value]]

\* the branch of applyReplacements for the field condition at place \o <<key>>
applyFieldShared(s, res, doc, place, key) ==
    LET value == held(GetAt(doc, place \o <<key>>), place \o <<key>>) IN
      IF callbackReplacementMap(s, key)
      THEN [obj |-> mergeReplacements(res, key, fieldOf(s.fields, key).replacement.fn,
                                      parseFieldValueShared(doc, place \o <<key>>)),
            doc |-> doc]
      ELSE IF /\ stringReplacementMap(s, key)
              /\ fieldOf(s.fields, key).replacement.path # ""
      THEN setNestedValueShared(res, split(fieldOf(s.fields, key).replacement.path),
                                value, doc)
      ELSE [obj |-> SetProp(res, key, value), doc |-> doc]

\* applyReplacements(obj) for the object obj at the place in doc: the result
\* and doc as the call leaves them
RECURSIVE applyReplacementsShared(_, _, _)
RECURSIVE applyItemsShared(_, _, _, _, _)
RECURSIVE applyEntriesShared(_, _, _, _, _)

\* value.map((item) => applyReplacements(item)), item by item
applyItemsShared(s, doc, place, n, mapped) ==
    IF n > Len(GetAt(doc, place).items)
    THEN [obj |-> Arr(mapped), doc |-> doc]
    ELSE LET r == applyReplacementsShared(s, doc, place \o <<ToString(n - 1)>>) IN
           applyItemsShared(s, r.doc, place, n + 1, Append(mapped, r.obj))

applyEntriesShared(s, keys, res, doc, place) ==
    IF keys = <<>>
    THEN [obj |-> res, doc |-> doc]
    ELSE LET key == Head(keys)
             value == GetAt(doc, place \o <<key>>)
             r == IF key \in {"$and", "$or"} /\ value.k = "array"
                  THEN LET m == applyItemsShared(s, doc, place \o <<key>>, 1, <<>>) IN
                         [obj |-> SetProp(res, key, m.obj), doc |-> m.doc]
                  ELSE IF key = "$not" /\ isObjectValue(value)
                  THEN LET m == applyReplacementsShared(s, doc, place \o <<key>>) IN
                         [obj |-> SetProp(res, key, m.obj), doc |-> m.doc]
                  ELSE applyFieldShared(s, res, doc, place, key)
         IN applyEntriesShared(s, Tail(keys), r.obj, r.doc, place)

applyReplacementsShared(s, doc, place) ==
    LET entries == ObjectEntries(GetAt(doc, place)) IN
      applyEntriesShared(s, [i \in DOMAIN entries |-> entries[i].key], Obj(<<>>), doc, place)

\* as if the transform ran whether or not the schema accepted
transformRuns_always(s, success) == s.hasTransforms

\* .transform(...) is attached when hasTransforms, and runs once the schema
\* before it has accepted
transformRuns(s, success) == s.hasTransforms /\ success

---------------------------------------------------------------------------
(* The builder.                                                            *)

DefaultOptions ==
    [maxDepth |-> 5, maxConditions |-> 20, maxOrBranches |-> 5, maxArrayLength |-> 100]

LimitNames == {"maxDepth", "maxConditions", "maxOrBranches", "maxArrayLength"}

\* as if the defaults were spread after the argument
constructor_defaultsLast(o) == [n \in LimitNames |-> DefaultOptions[n]]

\* constructor(options): the defaults, overridden by the limits the argument sets
constructor(o) ==
    [n \in LimitNames |-> IF n \in DOMAIN o THEN o[n] ELSE DefaultOptions[n]]

NoSchema == [built |-> FALSE]
NoField == [field |-> ""]
NoResult == [done |-> FALSE]

\* as if a name already registered kept its first declaration
addField_keepsFirst(o) ==
    /\ added' = o
    /\ fieldOptionsMap' =
          IF o.field \in fieldNames(fieldOptionsMap)
          THEN fieldOptionsMap
          ELSE Append(fieldOptionsMap, o)
    /\ UNCHANGED <<override, options, schema, input, result, invocations, object, writes,
                   validated>>

\* addField(options): Map.set keeps the position of a name already registered
addField(o) ==
    /\ added' = o
    /\ fieldOptionsMap' =
          IF o.field \in fieldNames(fieldOptionsMap)
          THEN [i \in DOMAIN fieldOptionsMap |->
                  IF fieldOptionsMap[i].field = o.field THEN o ELSE fieldOptionsMap[i]]
          ELSE Append(fieldOptionsMap, o)
    /\ UNCHANGED <<override, options, schema, input, result, invocations, object, writes,
                   validated>>

\* build(): the returned schema closes over the limits and a copy of the declarations
build ==
    /\ schema' = [built |-> TRUE,
                  maxDepth |-> options.maxDepth,
                  maxConditions |-> options.maxConditions,
                  maxOrBranches |-> options.maxOrBranches,
                  maxArrayLength |-> options.maxArrayLength,
                  fields |-> fieldOptionsMap,
                  hasTransforms |-> hasTransforms(fieldOptionsMap)]
    /\ UNCHANGED <<override, added, options, fieldOptionsMap, input, result, invocations,
                   object, writes, validated>>

\* as if the schema read the builder's registry and limits at each parse
safeParse_liveRegistry(doc) ==
    /\ schema.built
    /\ input' = doc
    /\ LET live == [schema EXCEPT !.fields = fieldOptionsMap,
                                  !.hasTransforms = hasTransforms(fieldOptionsMap)]
           success == createFilterSchema(live, 0, doc)
           obj == createFilterData(live, 0, doc)
       IN /\ result' =
                IF success
                THEN [done |-> TRUE, success |-> TRUE,
                      data |-> IF transformRuns(live, success)
                               THEN applyReplacements(live, obj)
                               ELSE obj]
                ELSE [done |-> TRUE, success |-> FALSE,
                      error |-> createFilterIssues(live, 0, doc)]
          /\ invocations' =
                IF transformRuns(live, success)
                THEN invocations \o callbackArgs(live, obj)
                ELSE invocations
          /\ validated' =
                IF ~success THEN Undefined
                ELSE IF transformRuns(live, success)
                THEN LET r == applyReplacementsShared(live, obj, <<>>) IN resolve(r.doc, r.doc)
                ELSE obj
    /\ UNCHANGED <<override, added, options, fieldOptionsMap, schema, object, writes>>

\* schema.safeParse(doc) on the schema of the last build(): the result holds
\* the data, rewritten when the schema has the transform, or the error with
\* its issues and no data at all
\* (validated is the document Zod handed to the transform, as the transform
\* leaves it).
safeParse(doc) ==
    /\ schema.built
    /\ input' = doc
    /\ LET success == createFilterSchema(schema, 0, doc)
           obj == createFilterData(schema, 0, doc)
       IN /\ result' =
                IF success
                THEN [done |-> TRUE, success |-> TRUE,
                      data |-> IF transformRuns(schema, success)
                               THEN applyReplacements(schema, obj)
                               ELSE obj]
                ELSE [done |-> TRUE, success |-> FALSE,
                      error |-> createFilterIssues(schema, 0, doc)]
          /\ invocations' =
                IF transformRuns(schema, success)
                THEN invocations \o callbackArgs(schema, obj)
                ELSE invocations
          /\ validated' =
                IF ~success THEN Undefined
                ELSE IF transformRuns(schema, success)
                THEN LET r == applyReplacementsShared(schema, obj, <<>>) IN resolve(r.doc, r.doc)
                ELSE obj
    /\ UNCHANGED <<override, added, options, fieldOptionsMap, schema, object, writes>>

\* setNestedValue(object, path, value), called by a caller on an object of its own
write(path, value) ==
    /\ object' = setNestedValue(object, split(path), value)
    /\ writes' = Append(writes, [path |-> path, value |-> value])
    /\ UNCHANGED <<override, added, options, fieldOptionsMap, schema, input, result,
                   invocations, validated>>

---------------------------------------------------------------------------
(* Callers.  Two scripts drive the same builder and schema: Spec registers *)
(* plain fields and parses documents of varying structure; SpecOperators   *)
(* registers one field of every type and flag combination and parses every *)
(* kind of value under it.                                                 *)

NoReplacement == [kind |-> "none"]

Field(name, type, array, fulltext) ==
    [field |-> name, type |-> type, array |-> array, fulltext |-> fulltext,
     replacement |-> NoReplacement]

\* {[key]: [doc, ...]}, {[key]: doc}
LogicalArray(key, docs) == Obj(<<Entry(key, Arr(docs))>>)
LogicalNot(doc) == Obj(<<Entry("$not", doc)>>)

\* doc under one more logical operator
Wrap(key, doc) == IF key = "$not" THEN LogicalNot(doc) ELSE LogicalArray(key, <<doc>>)

\* doc under n layers of the logical operator
RECURSIVE WrapN(_, _, _)
WrapN(key, n, doc) == IF n = 0 THEN doc ELSE Wrap(key, WrapN(key, n - 1, doc))

Min(a, b) == IF a < b THEN a ELSE b

(* ---- Spec: structure ---- *)

\* the fields the caller registers, in this order
StructFields ==
    << Field("a", "string", FALSE, FALSE),
       Field("b", "number", FALSE, FALSE),
       Field("c", "boolean", FALSE, FALSE) >>

StructOverrides ==
    {[maxDepth |-> d, maxConditions |-> c, maxOrBranches |-> o] :
        d \in 0..MaxLimit, c \in 0..MaxLimit, o \in 0..MaxLimit}
      \cup {<<>>}

\* one well-typed condition per field
StructConditions ==
    << Entry("a", Str("John")), Entry("b", Num(1)), Entry("c", Bool(TRUE)) >>

\* the field conditions of one object: the first n well-typed conditions, a
\* key that no caller registers, or a condition of the wrong type
StructPayloads ==
    {SubSeq(StructConditions, 1, n) : n \in 0..Min(MaxLimit + 1, Len(StructConditions))}
      \cup {<<Entry("z", Str("John"))>>, <<Entry("a", Num(1))>>}

StructLeaves == {Obj(<<>>), Obj(<<Entry("a", Str("John"))>>), Obj(<<Entry("z", Str("John"))>>)}

\* an object of field conditions, alone or beside one logical operator over leaves
StructCores ==
    {Obj(p) : p \in StructPayloads}
      \cup {Obj(p \o <<Entry(key, Arr(Rep(leaf, n)))>>) :
              p \in StructPayloads, key \in {"$and", "$or"},
              n \in 0..(MaxLimit + 1), leaf \in StructLeaves}
      \cup {Obj(p \o <<Entry("$not", leaf)>>) : p \in StructPayloads, leaf \in StructLeaves}

\* a combinator over something other than an array of objects ($and, $or) or
\* an object ($not)
StructMalformed ==
    {Obj(<<Entry(key, x)>>) :
        key \in {"$and", "$or"},
        x \in {Str("John"), Num(1), Null, Obj(<<>>), Obj(<<Entry("a", Str("John"))>>)}}
      \cup {Obj(<<Entry(key, Arr(<<x>>))>>) :
              key \in {"$and", "$or"}, x \in {Str("John"), Null, Arr(<<>>)}}
      \cup {Obj(<<Entry("$not", x)>>) :
              x \in {Arr(<<>>), Arr(<<Obj(<<>>)>>), Str("John"), Num(1), Null, DateObj}}

StructDocs ==
    {WrapN(key, n, core) :
        key \in LogicalKeys, n \in 0..(MaxLimit + 1), core \in StructCores \cup StructMalformed}

Init ==
    /\ override \in StructOverrides
    /\ options = constructor(override)
    /\ added = NoField
    /\ fieldOptionsMap = <<>>
    /\ schema = NoSchema
    /\ input = Undefined
    /\ result = NoResult
    /\ invocations = <<>>
    /\ object = Obj(<<>>)
    /\ writes = <<>>
    /\ validated = Undefined

Next ==
    \/ /\ ~schema.built
       /\ Len(fieldOptionsMap) < Len(StructFields)
       /\ addField(StructFields[Len(fieldOptionsMap) + 1])
    \/ /\ ~schema.built
       /\ build
    \/ /\ ~result.done
       /\ \E doc \in StructDocs : safeParse(doc)

Spec == Init /\ [][Next]_vars

(* ---- SpecOperators: field values ---- *)

FieldTypes == {"string", "number", "boolean", "date"}

\* one field, of every type and flag combination
OperatorFields ==
    {Field("f", type, array, fulltext) :
        type \in FieldTypes, array \in BOOLEAN, fulltext \in BOOLEAN}

OperatorOverrides == {[maxArrayLength |-> m] : m \in 0..MaxLimit}

Primitives ==
    {Str("John"), Str("2024-01-15"), Str("2024-01-15T10:30:00Z"),
     Num(1), Bool(TRUE), Null, DateObj}

\* arrays of one repeated element, up to one longer than the largest limit,
\* and arrays of two unlike elements
Arrays ==
    {Arr(Rep(p, n)) : p \in Primitives, n \in 0..(MaxLimit + 1)}
      \cup {Arr(<<p, q>>) : p \in Primitives, q \in {Null, Str("John"), Num(1)}}

Operands == Primitives \cup Arrays \cup {Obj(<<>>)}

\* the operators of the Operator type that have a schema, two that have
\* none, one that is no operator and a key that is not an operator at all
OperatorObjectKeys ==
    {"$eq", "$ne", "$lt", "$gt", "$lte", "$gte", "$in", "$nin",
     "$fulltext", "$contains", "$overlap", "$like", "$regex", "invalid"}

\* pairs of keys in one operator object
OperatorKeyPairs ==
    {<<"$gte", "$lte">>, <<"$eq", "$fulltext">>, <<"$eq", "$like">>, <<"$ne", "$gt">>}

FieldValues ==
    Operands
      \cup {Obj(<<Entry(key, x)>>) : key \in OperatorObjectKeys, x \in Operands}
      \cup {Obj(<<Entry(pair[1], x), Entry(pair[2], x)>>) :
              pair \in OperatorKeyPairs, x \in Primitives}
      \cup {Obj(<<Entry("$eq", x), Entry("$contains", Arr(<<x>>))>>) : x \in Primitives}

\* the condition {f: v} at level 0, 1 and 2
OperatorDocs ==
    UNION {{Obj(<<Entry("f", v)>>),
            LogicalNot(Obj(<<Entry("f", v)>>)),
            LogicalArray("$and", <<LogicalArray("$or", <<Obj(<<Entry("f", v)>>)>>)>>)} :
           v \in FieldValues}

InitOperators ==
    /\ override \in OperatorOverrides
    /\ options = constructor(override)
    /\ added = NoField
    /\ fieldOptionsMap = <<>>
    /\ schema = NoSchema
    /\ input = Undefined
    /\ result = NoResult
    /\ invocations = <<>>
    /\ object = Obj(<<>>)
    /\ writes = <<>>
    /\ validated = Undefined

NextOperators ==
    \/ /\ ~schema.built
       /\ fieldOptionsMap = <<>>
       /\ \E o \in OperatorFields : addField(o)
    \/ /\ ~schema.built
       /\ fieldOptionsMap # <<>>
       /\ build
    \/ /\ ~result.done
       /\ \E doc \in OperatorDocs : safeParse(doc)

SpecOperators == InitOperators /\ [][NextOperators]_vars

(* ---- SpecRewrite: replacement rules ---- *)

StringRule(path) == [kind |-> "string", path |-> path]
CallbackRule(fn) == [kind |-> "callback", fn |-> fn]

Replaced(name, type, rule) == [Field(name, type, FALSE, FALSE) EXCEPT !.replacement = rule]

Callbacks == {"title", "titleByOperator", "titleOrContent"}

\* the registries of the callers, each registered in this order: string
\* rules beside plain fields, no rule at all, a string and a callback rule
\* mixed, paths of three parts and of one, and a callback field of every
\* type with every callback
RewriteRegistries ==
    { << Field("id", "number", FALSE, FALSE),
         Field("title", "string", FALSE, FALSE),
         Replaced("authorName", "string", StringRule("author.name")),
         Replaced("authorAge", "number", StringRule("author.age")) >>,
      << Field("id", "number", FALSE, FALSE),
         Field("title", "string", FALSE, FALSE) >>,
      << Field("id", "number", FALSE, FALSE),
         Replaced("authorName", "string", StringRule("author.name")),
         Replaced("keyword", "string", CallbackRule("title")) >>,
      << Replaced("deep", "string", StringRule("a.b.c")),
         Replaced("headline", "string", StringRule("title")) >> }
      \cup {<< Field("id", "number", FALSE, FALSE),
                Replaced("keyword", type, CallbackRule(fn)) >> :
               type \in FieldTypes, fn \in Callbacks}

RewriteOverrides == {<<>>, [maxDepth |-> 1, maxConditions |-> 1]}

\* the values given to the callback field
KeywordPrimitives ==
    {Str("John"), Str("2024-01-15"), Num(1), Bool(TRUE), Null, DateObj}

KeywordValues ==
    KeywordPrimitives
      \cup {Obj(<<Entry(key, p)>>) : key \in {"$eq", "$ne", "$gte", "$like"}, p \in KeywordPrimitives}
      \cup {Obj(<<Entry("$in", Arr(<<p, Null>>))>>) : p \in KeywordPrimitives}
      \cup {Obj(<<Entry(pair[1], p), Entry(pair[2], Null)>>) :
              pair \in {<<"$eq", "$ne">>, <<"$ne", "$eq">>}, p \in KeywordPrimitives}
      \cup {Obj(<<>>),
            Obj(<<Entry("$ne", Str("John")), Entry("$eq", Str("Jane"))>>),
            Obj(<<Entry("$lte", Num(2)), Entry("$in", Arr(<<Num(1)>>)), Entry("$gte", Num(1))>>)}

\* the conditions of a document: a field and the value given to it
RewriteConditions ==
    {Entry("id", v) : v \in {Num(1), Obj(<<Entry("$lte", Num(2)), Entry("$gte", Num(1))>>)}}
      \cup {Entry("title", v) : v \in {Str("Hello"), Obj(<<Entry("$ne", Str("Hello"))>>)}}
      \cup {Entry("authorName", v) :
              v \in {Str("John"), Null, Num(1), Obj(<<>>),
                     Obj(<<Entry("$ne", Str("John")), Entry("$eq", Str("Jane"))>>),
                     Obj(<<Entry("$in", Arr(<<Str("John"), Null>>))>>)}}
      \cup {Entry("authorAge", v) :
              v \in {Num(1), Obj(<<Entry("$gte", Num(18))>>),
                     Obj(<<Entry("$lte", Num(2)), Entry("$gte", Num(1))>>)}}
      \cup {Entry("deep", v) : v \in {Str("John"), Obj(<<Entry("$ne", Str("John"))>>)}}
      \cup {Entry("headline", v) : v \in {Str("Hello"), Null}}
      \cup {Entry("keyword", v) : v \in KeywordValues}

\* the objects of two and three conditions
RewriteObjects ==
    {Obj(<<c>>) : c \in RewriteConditions}
      \cup {Obj(<<Entry("authorAge", Obj(<<Entry("$gte", Num(18))>>)), c>>) :
              c \in {Entry("authorName", Str("John")), Entry("id", Num(1))}}
      \cup {Obj(<<c, Entry("id", Num(1))>>) :
              c \in {Entry("keyword", Str("John")), Entry("authorName", Str("John")),
                     Entry("title", Str("Hello"))}}
      \cup {Obj(<<Entry("headline", Str("Hello")), Entry("deep", Str("John"))>>),
            Obj(<<Entry("id", Num(1)), Entry("title", Str("Hello")),
                  Entry("authorName", Str("John"))>>),
            Obj(<<Entry("keyword", Str("hello")), Entry("authorName", Str("John")),
                  Entry("id", Num(1))>>),
            Obj(<<Entry("keyword", Str("John")), Entry("unknown", Num(1))>>)}

\* an object alone, under one combinator, beside one, and two levels down
RewriteDocs ==
    RewriteObjects
      \cup {Wrap(key, o) : key \in LogicalKeys, o \in RewriteObjects}
      \cup {LogicalArray(key, <<Obj(<<Entry("id", Num(1))>>), o>>) :
              key \in {"$and", "$or"}, o \in RewriteObjects}
      \cup {Obj(<<c, Entry("$or", Arr(<<Obj(<<Entry("id", Num(1))>>), Obj(<<c>>)>>))>>) :
              c \in RewriteConditions}
      \cup {LogicalArray("$and", <<LogicalArray("$or", <<o, Obj(<<Entry("id", Num(2))>>)>>),
                                   Obj(<<Entry("authorAge", Obj(<<Entry("$gte", Num(18))>>))>>)>>) :
              o \in RewriteObjects}

InitRewrite ==
    /\ override \in RewriteOverrides
    /\ options = constructor(override)
    /\ added = NoField
    /\ fieldOptionsMap = <<>>
    /\ schema = NoSchema
    /\ input = Undefined
    /\ result = NoResult
    /\ invocations = <<>>
    /\ object = Obj(<<>>)
    /\ writes = <<>>
    /\ validated = Undefined

NextRewrite ==
    \/ /\ ~schema.built
       /\ \E r \in RewriteRegistries :
             /\ Len(fieldOptionsMap) < Len(r)
             /\ fieldOptionsMap = SubSeq(r, 1, Len(fieldOptionsMap))
             /\ addField(r[Len(fieldOptionsMap) + 1])
    \/ /\ ~schema.built
       /\ fieldOptionsMap \in RewriteRegistries
       /\ build
    \/ /\ ~result.done
       /\ \E doc \in RewriteDocs : safeParse(doc)

SpecRewrite == InitRewrite /\ [][NextRewrite]_vars

(* ---- SpecBuilder: the constructor and the registry ---- *)

\* every partial override, each limit it sets at 1..MaxLimit
BuilderOverrides == UNION {[names -> 1..MaxLimit] : names \in SUBSET LimitNames}

\* declarations of two names, each name with several
BuilderFields ==
    {Field("name", "string", FALSE, FALSE),
     Field("name", "number", FALSE, FALSE),
     Replaced("name", "string", StringRule("title")),
     Field("age", "number", FALSE, FALSE),
     Field("age", "string", TRUE, TRUE)}

BuilderDocs ==
    {Obj(<<>>),
     Obj(<<Entry("name", Str("John"))>>),
     Obj(<<Entry("name", Num(1))>>),
     Obj(<<Entry("age", Num(25))>>),
     Obj(<<Entry("age", Obj(<<Entry("$fulltext", Str("John"))>>))>>),
     Obj(<<Entry("name", Str("John")), Entry("age", Num(25))>>)}

InitBuilder ==
    /\ override \in BuilderOverrides
    /\ options = constructor(override)
    /\ added = NoField
    /\ fieldOptionsMap = <<>>
    /\ schema = NoSchema
    /\ input = Undefined
    /\ result = NoResult
    /\ invocations = <<>>
    /\ object = Obj(<<>>)
    /\ writes = <<>>
    /\ validated = Undefined

\* the caller registers, and registers again, in any order, then builds and parses
NextBuilder ==
    \/ /\ ~schema.built
       /\ \E o \in BuilderFields : addField(o)
    \/ /\ ~schema.built
       /\ build
    \/ /\ ~result.done
       /\ \E doc \in BuilderDocs : safeParse(doc)

SpecBuilder == InitBuilder /\ [][NextBuilder]_vars

(* ---- SpecLifecycle: the builder after build() ---- *)

LifecycleOverrides == {<<>>, [maxConditions |-> 1]}

InitLifecycle ==
    /\ override \in LifecycleOverrides
    /\ options = constructor(override)
    /\ added = NoField
    /\ fieldOptionsMap = <<>>
    /\ schema = NoSchema
    /\ input = Undefined
    /\ result = NoResult
    /\ invocations = <<>>
    /\ object = Obj(<<>>)
    /\ writes = <<>>
    /\ validated = Undefined

\* the caller keeps the builder and the schema of its last build(): it
\* registers, builds and parses in any order, any number of times
NextLifecycle ==
    \/ \E o \in BuilderFields : addField(o)
    \/ build
    \/ \E doc \in BuilderDocs : safeParse(doc)

SpecLifecycle == InitLifecycle /\ [][NextLifecycle]_vars

(* ---- SpecErrors: rejected documents ---- *)

\* the fields the caller registers, in this order
ErrorFields ==
    << Field("a", "string", FALSE, FALSE),
       Field("b", "number", FALSE, FALSE),
       Field("tags", "string", TRUE, FALSE) >>

\* every limit set, at 1..MaxLimit
ErrorOverrides == [LimitNames -> 1..MaxLimit]

ErrorConditions ==
    << Entry("a", Str("John")), Entry("b", Num(1)),
       Entry("tags", Obj(<<Entry("$contains", Arr(<<Str("admin")>>))>>)) >>

\* objects with one defect or none: up to three conditions, a list operand of
\* every length up to MaxLimit + 1, an unregistered key, an unknown operator,
\* a value of the wrong type
ErrorLeaves ==
    {Obj(SubSeq(ErrorConditions, 1, n)) : n \in 0..3}
      \cup {Obj(<<Entry(pair[1], Obj(<<Entry(pair[2], Arr(Rep(Str("admin"), n)))>>))>>) :
              pair \in {<<"tags", "$in">>, <<"tags", "$overlap">>, <<"a", "$nin">>},
              n \in 0..(MaxLimit + 1)}
      \cup {Obj(<<Entry("z", Num(1))>>),
            Obj(<<Entry("a", Obj(<<Entry("$like", Str("John"))>>))>>),
            Obj(<<Entry("a", Num(1))>>),
            Obj(<<Entry("b", Str("John"))>>)}

\* objects with several defects, in the order of the registry and against it
ErrorMixed ==
    {Obj(<<Entry("a", Num(1)), Entry("b", Str("John"))>>),
     Obj(<<Entry("b", Str("John")), Entry("a", Num(1))>>),
     Obj(<<Entry("z", Num(1)), Entry("a", Num(1))>>),
     Obj(<<Entry("z", Num(1)), Entry("y", Num(1))>>),
     Obj(ErrorConditions \o <<Entry("z", Num(1))>>),
     Obj(<<Entry("a", Str("John")), Entry("b", Str("John")),
           Entry("tags", Obj(<<Entry("$in", Arr(Rep(Str("admin"), MaxLimit + 1)))>>))>>),
     Obj(<<Entry("tags", Obj(<<Entry("$in", Arr(Rep(Str("admin"), MaxLimit + 1))),
                               Entry("$contains", Arr(Rep(Str("admin"), MaxLimit + 1)))>>)),
           Entry("a", Str("John")), Entry("b", Num(1))>>),
     Obj(<<Entry("tags", Obj(<<Entry("$in", Arr(<<Num(1), Num(1), Num(1), Num(1)>>))>>))>>)}

ErrorObjects == ErrorLeaves \cup ErrorMixed

\* an object alone, under one to MaxLimit + 1 combinators, in an array of
\* every length up to MaxLimit + 1, beside another object in an array, in a
\* long $and under a combinator, and beside a combinator
ErrorDocs ==
    ErrorObjects
      \cup {WrapN(key, n, o) : key \in LogicalKeys, n \in 1..(MaxLimit + 1), o \in ErrorLeaves}
      \cup {Wrap(key, o) : key \in LogicalKeys, o \in ErrorMixed}
      \cup {LogicalArray(key, Rep(o, n)) :
              key \in {"$and", "$or"}, n \in 0..(MaxLimit + 1),
              o \in {Obj(<<>>), Obj(<<Entry("a", Str("John"))>>), Obj(<<Entry("a", Num(1))>>)}}
      \cup {LogicalArray(key, <<o, Obj(<<Entry("z", Num(1))>>)>>) :
              key \in {"$and", "$or"}, o \in ErrorObjects}
      \cup {Wrap(key, LogicalArray("$and", Rep(o, MaxLimit + 1))) :
              key \in LogicalKeys,
              o \in {Obj(<<Entry("a", Str("John"))>>), Obj(SubSeq(ErrorConditions, 1, 2))}}
      \cup {Obj(<<Entry("$not", o), Entry("$or", Arr(<<o>>)), Entry("a", Num(1))>>) :
              o \in ErrorLeaves}
      \cup {Obj(<<Entry("a", Num(1)), Entry("$not", o), Entry("$and", Arr(<<o>>))>>) :
              o \in ErrorLeaves}

InitErrors ==
    /\ override \in ErrorOverrides
    /\ options = constructor(override)
    /\ added = NoField
    /\ fieldOptionsMap = <<>>
    /\ schema = NoSchema
    /\ input = Undefined
    /\ result = NoResult
    /\ invocations = <<>>
    /\ object = Obj(<<>>)
    /\ writes = <<>>
    /\ validated = Undefined

NextErrors ==
    \/ /\ ~schema.built
       /\ Len(fieldOptionsMap) < Len(ErrorFields)
       /\ addField(ErrorFields[Len(fieldOptionsMap) + 1])
    \/ /\ ~schema.built
       /\ fieldOptionsMap = ErrorFields
       /\ build
    \/ /\ ~result.done
       /\ \E doc \in ErrorDocs : safeParse(doc)

SpecErrors == InitErrors /\ [][NextErrors]_vars

(* ---- SpecNested: setNestedValue on its own ---- *)

\* the most calls a caller makes on one object
MaxWrites == 3

\* the objects of the callers: empty, with siblings, and with every kind of
\* value where a path goes through
NestedObjects ==
    {Obj(<<>>),
     Obj(<<Entry("title", Str("Hello")), Entry("author", Obj(<<Entry("age", Num(30))>>))>>),
     Obj(<<Entry("author", Obj(<<Entry("name", Str("Jane")), Entry("age", Num(30))>>))>>),
     Obj(<<Entry("author", Null), Entry("a", Str("Hello"))>>),
     Obj(<<Entry("author", Num(1)), Entry("a", Obj(<<Entry("b", Null), Entry("x", Num(1))>>))>>),
     Obj(<<Entry("a", Obj(<<Entry("b", Obj(<<Entry("c", Num(1)), Entry("d", Num(2))>>))>>)),
           Entry("author", Arr(<<Num(1)>>))>>),
     Obj(<<Entry("author", DateObj), Entry("id", Num(1))>>)}

NestedPaths == {"title", "author", "author.name", "author.age", "a.b", "a.b.c"}

NestedValues == {Str("John"), Obj(<<Entry("$gte", Num(18))>>)}

InitNested ==
    /\ override = <<>>
    /\ options = constructor(override)
    /\ added = NoField
    /\ fieldOptionsMap = <<>>
    /\ schema = NoSchema
    /\ input = Undefined
    /\ result = NoResult
    /\ invocations = <<>>
    /\ object \in NestedObjects
    /\ writes = <<>>
    /\ validated = Undefined

NextNested ==
    /\ Len(writes) < MaxWrites
    /\ \E path \in NestedPaths, value \in NestedValues : write(path, value)

SpecNested == InitNested /\ [][NextNested]_vars

(* ---- SpecShared: fields whose places in the output meet ---- *)

\* the registries of the callers, in both orders of registration: a plain
\* field named as the first part of another field's path, a path that is the
\* beginning of another path, paths that only share their first part, and
\* no path at all
SharedRegistries ==
    { << Field("author", "string", FALSE, FALSE),
         Replaced("authorName", "string", StringRule("author.name")) >>,
      << Replaced("authorName", "string", StringRule("author.name")),
         Field("author", "string", FALSE, FALSE) >>,
      << Replaced("mid", "string", StringRule("a.b")),
         Replaced("deep", "string", StringRule("a.b.c")) >>,
      << Replaced("deep", "string", StringRule("a.b.c")),
         Replaced("mid", "string", StringRule("a.b")) >>,
      << Field("author", "string", FALSE, FALSE),
         Replaced("authorName", "string", StringRule("author.name")),
         Replaced("authorAge", "number", StringRule("author.age")) >>,
      << Field("title", "string", FALSE, FALSE),
         Replaced("authorName", "string", StringRule("author.name")),
         Replaced("authorAge", "number", StringRule("author.age")) >>,
      << Field("author", "string", FALSE, FALSE),
         Field("title", "string", FALSE, FALSE) >> }

SharedConditions ==
    {Entry("author", v) : v \in {Str("Jane"), Null, Obj(<<Entry("$eq", Str("Jane"))>>),
                                 Obj(<<Entry("$in", Arr(<<Str("Jane")>>))>>)}}
      \cup {Entry("authorName", v) : v \in {Str("John"), Obj(<<Entry("$ne", Str("John"))>>)}}
      \cup {Entry("authorAge", v) : v \in {Num(1)}}
      \cup {Entry("title", v) : v \in {Str("Hello")}}
      \cup {Entry("mid", v) : v \in {Str("x"), Obj(<<Entry("$eq", Str("x"))>>)}}
      \cup {Entry("deep", v) : v \in {Str("John"), Obj(<<Entry("$ne", Str("John"))>>)}}

\* the objects of one and two conditions on different fields, in both orders
\* of their keys, and of three
SharedObjects ==
    {Obj(<<c>>) : c \in SharedConditions}
      \cup {Obj(<<p[1], p[2]>>) :
              p \in {q \in SharedConditions \X SharedConditions : q[1].key # q[2].key}}
      \cup {Obj(<<Entry("authorAge", Num(1)), c, Entry("authorName", Str("John"))>>) :
              c \in {e \in SharedConditions : e.key \in {"author", "title"}}}

\* an object alone, under one combinator, and beside another in a list
SharedDocs ==
    SharedObjects
      \cup {Wrap(key, o) : key \in LogicalKeys, o \in SharedObjects}
      \cup {LogicalArray("$and", <<Obj(<<Entry("authorName", Str("John"))>>), o>>) :
              o \in SharedObjects}

InitShared ==
    /\ override = <<>>
    /\ options = constructor(override)
    /\ added = NoField
    /\ fieldOptionsMap = <<>>
    /\ schema = NoSchema
    /\ input = Undefined
    /\ result = NoResult
    /\ invocations = <<>>
    /\ object = Obj(<<>>)
    /\ writes = <<>>
    /\ validated = Undefined

NextShared ==
    \/ /\ ~schema.built
       /\ \E r \in SharedRegistries :
             /\ Len(fieldOptionsMap) < Len(r)
             /\ fieldOptionsMap = SubSeq(r, 1, Len(fieldOptionsMap))
             /\ addField(r[Len(fieldOptionsMap) + 1])
    \/ /\ ~schema.built
       /\ fieldOptionsMap \in SharedRegistries
       /\ build
    \/ /\ ~result.done
       /\ \E doc \in SharedDocs : safeParse(doc)

SpecShared == InitShared /\ [][NextShared]_vars

---------------------------------------------------------------------------
(* Properties of the structure of a document (Spec).                       *)

\* the values of each field type
ValuesOfType ==
    [string |-> {Str("John"), Str("2024-01-15"), Str("2024-01-15T10:30:00Z")},
     number |-> {Num(1)},
     boolean |-> {Bool(TRUE)},
     date |-> {DateObj, Str("2024-01-15"), Str("2024-01-15T10:30:00Z")}]

\* the objects of a document, each with its nesting level: the document
\* itself and, level by level, the sub-documents under $and, $or and $not
RECURSIVE Nodes(_, _)
Nodes(v, level) ==
    IF v.k # "object"
    THEN {}
    ELSE {[obj |-> v, level |-> level]}
           \cup UNION {LET e == v.ent[i] IN
                         IF e.key \in {"$and", "$or"} /\ e.val.k = "array"
                         THEN UNION {Nodes(e.val.items[j], level + 1) : j \in DOMAIN e.val.items}
                         ELSE IF e.key = "$not"
                         THEN Nodes(e.val, level + 1)
                         ELSE {}
                       : i \in DOMAIN v.ent}

FieldKeys(n) == ObjectKeys(n.obj) \ LogicalKeys

\* keys that are neither a registered field nor a combinator permitted at the level
UnpermittedKeys(s, n) ==
    ObjectKeys(n.obj) \ (fieldNames(s.fields)
                           \cup (IF n.level < s.maxDepth THEN LogicalKeys ELSE {}))

\* keys that are neither a registered field nor a combinator
UnknownKeys(s, n) == ObjectKeys(n.obj) \ (fieldNames(s.fields) \cup LogicalKeys)

LogicalTooDeep(s, n) ==
    n.level >= s.maxDepth /\ ObjectKeys(n.obj) \cap LogicalKeys # {}

TooManyConditions(s, n) == Cardinality(FieldKeys(n)) > s.maxConditions

OrTooLong(s, n) ==
    \E i \in DOMAIN n.obj.ent :
        /\ n.obj.ent[i].key = "$or"
        /\ n.obj.ent[i].val.k = "array"
        /\ Len(n.obj.ent[i].val.items) > s.maxOrBranches

\* a combinator whose value is not an array of objects ($and, $or) or an object ($not)
MalformedLogical(n) ==
    \E i \in DOMAIN n.obj.ent :
        LET e == n.obj.ent[i] IN
          \/ /\ e.key \in {"$and", "$or"}
             /\ \/ e.val.k # "array"
                \/ \E j \in DOMAIN e.val.items : e.val.items[j].k # "object"
          \/ e.key = "$not" /\ e.val.k # "object"

\* a registered field whose value is neither null nor a bare value of its type
NotBareOfType(s, n) ==
    \E i \in DOMAIN n.obj.ent :
        LET e == n.obj.ent[i] IN
          /\ e.key \in fieldNames(s.fields)
          /\ e.val \notin ValuesOfType[fieldOf(s.fields, e.key).type] \cup {Null}

\* the number of nested layers of combinators
Layers(v) ==
    LET depths == {n.level + (IF ObjectKeys(n.obj) \cap LogicalKeys # {} THEN 1 ELSE 0) :
                     n \in Nodes(v, 0)}
    IN IF depths = {} THEN 0 ELSE CHOOSE d \in depths : \A e \in depths : e <= d

\* C1: closed-world whitelist.  A parsed document holding, in any object at any
\* level, a key that is neither a registered field nor a combinator permitted at
\* that level is rejected; with no field registered, a document of combinators
\* over empty documents, within the depth and $or limits, is accepted.
C1_ClosedWorld ==
    result.done =>
      /\ (\E n \in Nodes(input, 0) : UnpermittedKeys(schema, n) # {}) => ~result.success
      /\ (/\ schema.fields = <<>>
          /\ \A n \in Nodes(input, 0) :
                /\ FieldKeys(n) = {}
                /\ ~LogicalTooDeep(schema, n)
                /\ ~OrTooLong(schema, n)
                /\ ~MalformedLogical(n))
            => result.success

\* a registry with fields rejected an unregistered key under $not
C1_Witness ==
    /\ result.done
    /\ ~result.success
    /\ schema.fields # <<>>
    /\ schema.maxDepth >= 1
    /\ input = LogicalNot(Obj(<<Entry("z", Str("John"))>>))

\* the empty registry accepted combinators over empty documents
C1_WitnessEmpty ==
    /\ result.done
    /\ result.success
    /\ schema.fields = <<>>
    /\ input = LogicalArray("$and", <<LogicalArray("$or", <<Obj(<<>>)>>)>>)

\* the document has no defect other than, possibly, the one a claim is about
NoUnknownKeys(s, v) == \A n \in Nodes(v, 0) : UnknownKeys(s, n) = {}
NoLogicalTooDeep(s, v) == \A n \in Nodes(v, 0) : ~LogicalTooDeep(s, n)
NoTooManyConditions(s, v) == \A n \in Nodes(v, 0) : ~TooManyConditions(s, n)
NoOrTooLong(s, v) == \A n \in Nodes(v, 0) : ~OrTooLong(s, n)
WellFormedConditions(s, v) ==
    \A n \in Nodes(v, 0) : ~MalformedLogical(n) /\ ~NotBareOfType(s, n)

\* C2: depth boundary.  A combinator key in an object at level d >= maxDepth
\* rejects the document; a document with no other defect (registered fields
\* with values of their type, conditions and $or branches within their limits)
\* is accepted exactly when its combinators nest at most maxDepth layers deep.
C2_DepthBoundary ==
    result.done =>
      /\ ~NoLogicalTooDeep(schema, input) => ~result.success
      /\ (/\ NoUnknownKeys(schema, input)
          /\ NoTooManyConditions(schema, input)
          /\ NoOrTooLong(schema, input)
          /\ WellFormedConditions(schema, input))
            => (result.success <=> Layers(input) <= schema.maxDepth)

\* exactly maxDepth layers around a field condition, accepted
C2_Witness ==
    /\ result.done
    /\ result.success
    /\ schema.maxDepth >= 2
    /\ Layers(input) = schema.maxDepth
    /\ \E n \in Nodes(input, 0) : n.level = schema.maxDepth /\ FieldKeys(n) # {}

\* C3: maxConditions on every object.  An object, at any level, with more than
\* maxConditions field keys rejects the document; a document with no other
\* defect is accepted exactly when no object has more than maxConditions field
\* keys, whatever combinators stand beside them.
C3_MaxConditions ==
    result.done =>
      /\ ~NoTooManyConditions(schema, input) => ~result.success
      /\ (/\ NoUnknownKeys(schema, input)
          /\ NoLogicalTooDeep(schema, input)
          /\ NoOrTooLong(schema, input)
          /\ WellFormedConditions(schema, input))
            => (result.success <=> NoTooManyConditions(schema, input))

\* an object with exactly maxConditions conditions beside a combinator, below
\* the top level, accepted
C3_Witness ==
    /\ result.done
    /\ result.success
    /\ schema.maxConditions >= 1
    /\ \E n \in Nodes(input, 0) :
          /\ n.level >= 1
          /\ Cardinality(FieldKeys(n)) = schema.maxConditions
          /\ ObjectKeys(n.obj) \cap LogicalKeys # {}

\* C4: maxOrBranches on every $or.  An $or array, at any level, longer than
\* maxOrBranches rejects the document; a document with no other defect is
\* accepted exactly when no $or array is longer than maxOrBranches.
C4_MaxOrBranches ==
    result.done =>
      /\ ~NoOrTooLong(schema, input) => ~result.success
      /\ (/\ NoUnknownKeys(schema, input)
          /\ NoLogicalTooDeep(schema, input)
          /\ NoTooManyConditions(schema, input)
          /\ WellFormedConditions(schema, input))
            => (result.success <=> NoOrTooLong(schema, input))

\* an $or of exactly maxOrBranches branches below the top level, accepted
C4_Witness ==
    /\ result.done
    /\ result.success
    /\ schema.maxOrBranches >= 2
    /\ \E n \in Nodes(input, 0) :
          /\ n.level >= 1
          /\ \E i \in DOMAIN n.obj.ent :
                /\ n.obj.ent[i].key = "$or"
                /\ Len(n.obj.ent[i].val.items) = schema.maxOrBranches

MalformedCombinator(n) ==
    \E i \in DOMAIN n.obj.ent :
        LET e == n.obj.ent[i] IN
          \/ e.key \in {"$and", "$or"} /\ e.val.k # "array"
          \/ e.key = "$not" /\ e.val.k \notin {"object", "date"}

\* C12: malformed combinators.  A parsed document that holds, in any object at
\* any level, $and or $or over a value that is not an array, or $not over a
\* value that is not an object, is rejected.
C12_MalformedCombinators ==
    result.done =>
      ((\E n \in Nodes(input, 0) : MalformedCombinator(n)) => ~result.success)

\* $not over null one level down, where combinators are permitted, rejected
C12_Witness ==
    /\ result.done
    /\ ~result.success
    /\ schema.maxDepth >= 2
    /\ input = LogicalArray("$and", <<LogicalNot(Null)>>)

\* C13 as claimed: a parsed document accepted at depth d, 1 <= d < maxDepth, is
\* accepted at depth d - 1 under one more $and, $or or $not, whatever the limits.
C13_WrappingPreserves ==
    result.done =>
      \A d \in 1..(schema.maxDepth - 1) :
          createFilterSchema(schema, d, input)
            => \A key \in LogicalKeys :
                  createFilterSchema(schema, d - 1, Wrap(key, input))

\* C13 as amended: the same, the $or wrapper provided maxOrBranches >= 1 (with
\* maxOrBranches = 0 an $or of one branch is already too long).
C13_WrappingWithinOrLimit ==
    result.done =>
      \A d \in 1..(schema.maxDepth - 1) :
          createFilterSchema(schema, d, input)
            => \A key \in LogicalKeys :
                  (key = "$or" => schema.maxOrBranches >= 1)
                    => createFilterSchema(schema, d - 1, Wrap(key, input))

\* a document of a condition and a combinator, accepted at depth 1 and, under
\* each wrapper, at depth 0
C13_Witness ==
    /\ result.done
    /\ schema.maxDepth = 2
    /\ schema.maxOrBranches >= 1
    /\ input = Obj(<<Entry("a", Str("John")), Entry("$not", Obj(<<>>))>>)
    /\ createFilterSchema(schema, 1, input)
    /\ \A key \in LogicalKeys : createFilterSchema(schema, 0, Wrap(key, input))

---------------------------------------------------------------------------
(* Properties of the value of a field (SpecOperators).                     *)

\* the innermost object of a document of single combinators: the object
\* that holds the field condition
RECURSIVE Innermost(_)
Innermost(v) ==
    IF v.k = "object" /\ Len(v.ent) = 1 /\ v.ent[1].key \in LogicalKeys
    THEN IF v.ent[1].val.k = "array"
         THEN IF Len(v.ent[1].val.items) = 1 THEN Innermost(v.ent[1].val.items[1]) ELSE v
         ELSE Innermost(v.ent[1].val)
    ELSE v

\* the declaration of the one field and the value the parsed document gives it
TheField == schema.fields[1]
TheValue == Innermost(input).ent[1].val

\* the value is the operator object {key: operand}
IsSingle(v, keys) == v.k = "object" /\ Len(v.ent) = 1 /\ v.ent[1].key \in keys
OperandOf(v) == v.ent[1].val

ItemsOfType(type, v, nullable) ==
    \A i \in DOMAIN v.items :
        v.items[i] \in ValuesOfType[type] \cup (IF nullable THEN {Null} ELSE {})

OrderingOperators == {"$gt", "$gte", "$lt", "$lte"}
ListOperators == {"$in", "$nin"}
ArrayFieldOperators == {"$contains", "$overlap"}

\* C5: maxArrayLength is an exact boundary.  For $in and $nin on any field and
\* for $contains and $overlap on an array field, at levels 0, 1 and 2, an array
\* of values of the field's type is accepted exactly when it is no longer than
\* maxArrayLength.
C5_MaxArrayLength ==
    result.done =>
      LET v == TheValue
          legal == ListOperators \cup (IF TheField.array THEN ArrayFieldOperators ELSE {})
      IN (/\ IsSingle(v, legal)
          /\ OperandOf(v).k = "array"
          /\ ItemsOfType(TheField.type, OperandOf(v), FALSE))
            => (result.success <=> Len(OperandOf(v).items) <= schema.maxArrayLength)

\* $overlap of exactly maxArrayLength dates, two levels down, accepted
C5_Witness ==
    /\ result.done
    /\ result.success
    /\ Layers(input) = 2
    /\ schema.maxArrayLength = 2
    /\ TheField.type = "date"
    /\ TheValue = Obj(<<Entry("$overlap", Arr(<<DateObj, DateObj>>))>>)

C7_ArrayOperators ==
    result.done =>
      LET v == TheValue IN
        /\ (IsSingle(v, ArrayFieldOperators) /\ TheField.array)
              => (result.success <=>
                    /\ OperandOf(v).k = "array"
                    /\ Len(OperandOf(v).items) <= schema.maxArrayLength
                    /\ ItemsOfType(TheField.type, OperandOf(v), FALSE))
        /\ (/\ v.k = "object"
            /\ ObjectKeys(v) \cap ArrayFieldOperators # {}
            /\ ~TheField.array)
              => ~result.success

\* $contains of one string on a string field without the array flag, rejected
C7_Witness ==
    /\ result.done
    /\ ~result.success
    /\ TheField.type = "string"
    /\ ~TheField.array
    /\ schema.maxArrayLength >= 1
    /\ TheValue = Obj(<<Entry("$contains", Arr(<<Str("John")>>))>>)

\* C8: $fulltext is legal only for a string field with fulltext: true, with a
\* string operand: under every other declaration an operator object holding
\* $fulltext is rejected, and so is an operand that is not a string.
C8_FulltextOnlyForString ==
    result.done =>
      LET v == TheValue IN
        /\ (/\ v.k = "object"
            /\ "$fulltext" \in ObjectKeys(v)
            /\ ~(TheField.type = "string" /\ TheField.fulltext))
              => ~result.success
        /\ (IsSingle(v, {"$fulltext"}) /\ OperandOf(v).k # "string")
              => ~result.success

\* the operator set of a declaration, and the operand each operator takes
LegalOperators(field) ==
    {"$eq", "$ne", "$in", "$nin"}
      \cup (IF field.type \in {"number", "date"} THEN OrderingOperators ELSE {})
      \cup (IF field.array THEN ArrayFieldOperators ELSE {})
      \cup (IF field.type = "string" /\ field.fulltext THEN {"$fulltext"} ELSE {})

TypedOperand(field, maxArrayLength, key, x) ==
    CASE key \in {"$eq", "$ne"} -> x \in ValuesOfType[field.type] \cup {Null}
      [] key \in OrderingOperators -> x \in ValuesOfType[field.type]
      [] key \in ListOperators ->
            /\ x.k = "array"
            /\ Len(x.items) <= maxArrayLength
            /\ ItemsOfType(field.type, x, TRUE)
      [] key \in ArrayFieldOperators ->
            /\ x.k = "array"
            /\ Len(x.items) <= maxArrayLength
            /\ ItemsOfType(field.type, x, FALSE)
      [] key = "$fulltext" -> x.k = "string"
      [] OTHER -> FALSE

\* C9: the value of a registered field is accepted exactly when it is a bare
\* value of the type, null, or an object (a Date instance counts as one
\* without keys) whose keys all belong to the operator set of the declaration,
\* each with its typed operand.
C9_FieldValueExactly ==
    result.done =>
      LET v == TheValue IN
        result.success <=>
          \/ v \in ValuesOfType[TheField.type]
          \/ v = Null
          \/ /\ v.k \in {"object", "date"}
             /\ \A i \in DOMAIN ObjectEntries(v) :
                   /\ ObjectEntries(v)[i].key \in LegalOperators(TheField)
                   /\ TypedOperand(TheField, schema.maxArrayLength,
                                   ObjectEntries(v)[i].key, ObjectEntries(v)[i].val)

\* C10: operand nullability.  $eq and $ne accept exactly the values of the type
\* and null; $in and $nin, within maxArrayLength, exactly the arrays of such;
\* $gt, $gte, $lt, $lte on a number or date field exactly the values of the
\* type; $contains and $overlap on an array field, within maxArrayLength,
\* exactly the arrays of values of the type; and under every operator an
\* operand, or an element, that is neither null nor a value of the type is
\* rejected.
C10_OperandNullability ==
    result.done =>
      LET v == TheValue
          type == TheField.type
          x == OperandOf(v)
      IN
        /\ IsSingle(v, {"$eq", "$ne"})
              => (result.success <=> x \in ValuesOfType[type] \cup {Null})
        /\ (IsSingle(v, ListOperators) /\ x.k = "array"
              /\ Len(x.items) <= schema.maxArrayLength)
              => (result.success <=> ItemsOfType(type, x, TRUE))
        /\ (IsSingle(v, OrderingOperators) /\ type \in {"number", "date"})
              => (result.success <=> x \in ValuesOfType[type])
        /\ (IsSingle(v, ArrayFieldOperators) /\ TheField.array /\ x.k = "array"
              /\ Len(x.items) <= schema.maxArrayLength)
              => (result.success <=> ItemsOfType(type, x, FALSE))
        /\ (/\ IsSingle(v, {key \in OperatorObjectKeys : isOperator(key)})
            /\ \/ x \in Primitives \ (ValuesOfType[type] \cup {Null})
               \/ /\ x.k = "array"
                  /\ ~ItemsOfType(type, x, TRUE))
              => ~result.success

\* $gte null on a number field, rejected
C10_Witness ==
    /\ result.done
    /\ ~result.success
    /\ TheField.type = "number"
    /\ TheValue = Obj(<<Entry("$gte", Null)>>)

---------------------------------------------------------------------------
(* Properties of the output document (SpecRewrite).                        *)

\* a document as a mapping: the order of the keys of an object does not count
RECURSIVE Canon(_)
Canon(v) ==
    CASE v.k = "object" ->
            [k |-> "object", map |-> {<<key, Canon(GetProp(v, key))>> : key \in ObjectKeys(v)}]
      [] v.k = "array" ->
            [k |-> "array", items |-> [i \in DOMAIN v.items |-> Canon(v.items[i])]]
      [] OTHER -> v

SameDocument(a, b) == Canon(a) = Canon(b)

\* {p1: {p2: ... {pn: v}}}
RECURSIVE Nested(_, _)
Nested(parts, v) ==
    IF parts = <<>> THEN v ELSE Obj(<<Entry(Head(parts), Nested(Tail(parts), v))>>)

\* v.p1.p2...pn exists, and its value
RECURSIVE HasPath(_, _)
HasPath(v, parts) ==
    \/ parts = <<>>
    \/ /\ v.k = "object"
       /\ HasProp(v, Head(parts))
       /\ HasPath(GetProp(v, Head(parts)), Tail(parts))

RECURSIVE GetPath(_, _)
GetPath(v, parts) ==
    IF parts = <<>> THEN v ELSE GetPath(GetProp(v, Head(parts)), Tail(parts))

\* the rule of the field a condition is on
RuleOf(s, key) == fieldOf(s.fields, key).replacement

\* the keys the callbacks of the callers return
CallbackKeys(fn) == IF fn = "titleOrContent" THEN {"$or"} ELSE {"title"}

\* the key of the output object that an entry of the input object is written under
WrittenKeys(s, e) ==
    IF e.key \in LogicalKeys
    THEN {e.key}
    ELSE CASE RuleOf(s, e.key).kind = "none" -> {e.key}
           [] RuleOf(s, e.key).kind = "string" -> {split(RuleOf(s, e.key).path)[1]}
           [] RuleOf(s, e.key).kind = "callback" -> CallbackKeys(RuleOf(s, e.key).fn)

IsPrefix(p, q) == Len(p) <= Len(q) /\ p = SubSeq(q, 1, Len(p))

\* two entries of one object that write to the same place of the output:
\* under the same key, unless both are dotted paths that part ways
Collide(s, e, f) ==
    /\ WrittenKeys(s, e) \cap WrittenKeys(s, f) # {}
    /\ ~(/\ e.key \notin LogicalKeys
          /\ f.key \notin LogicalKeys
          /\ RuleOf(s, e.key).kind = "string"
          /\ RuleOf(s, f.key).kind = "string"
          /\ ~IsPrefix(split(RuleOf(s, e.key).path), split(RuleOf(s, f.key).path))
          /\ ~IsPrefix(split(RuleOf(s, f.key).path), split(RuleOf(s, e.key).path)))

\* entry i of the object shares its place in the output with another entry
Interferes(s, obj, i) ==
    \E j \in DOMAIN obj.ent : j # i /\ Collide(s, obj.ent[i], obj.ent[j])

\* the keys written by the entries of the object other than entry i
OthersWrite(s, obj, i) ==
    UNION {WrittenKeys(s, obj.ent[j]) : j \in DOMAIN obj.ent \ {i}}

\* out is the object in rewritten as C14 says: every condition on a field with
\* a dotted path sits whole at the end of the path and not under the field's
\* name, and every combinator is there with as many sub-documents, in order,
\* each rewritten so
RECURSIVE DottedPathsRewritten(_, _, _)
DottedPathsRewritten(s, in, out) ==
    /\ out.k = "object"
    /\ \A i \in DOMAIN ObjectEntries(in) :
          LET e == in.ent[i] IN
            \/ Interferes(s, in, i)
            \/ CASE e.key \in {"$and", "$or"} ->
                       /\ HasProp(out, e.key)
                       /\ GetProp(out, e.key).k = "array"
                       /\ Len(GetProp(out, e.key).items) = Len(e.val.items)
                       /\ \A j \in DOMAIN e.val.items :
                             DottedPathsRewritten(s, e.val.items[j], GetProp(out, e.key).items[j])
                 [] e.key = "$not" ->
                       /\ HasProp(out, "$not")
                       /\ DottedPathsRewritten(s, e.val, GetProp(out, "$not"))
                 [] OTHER ->
                       RuleOf(s, e.key).kind = "string" =>
                         LET parts == split(RuleOf(s, e.key).path) IN
                           /\ HasPath(out, parts)
                           /\ SameDocument(GetPath(out, parts), e.val)
                           /\ e.key \notin ObjectKeys(out) \ OthersWrite(s, in, i)

\* C14: dotted-path rewrite.  In the output of an accepted document, at every
\* level, a condition {field: v} on a field declared with the path p1.p2...pn
\* is the nested object {p1: {p2: ... {pn: v}}} holding v whole (bare value,
\* null or operator object), the field's name is not a key of the output
\* object, and $and, $or and $not keep their key, length and order; a document
\* of that one condition gives exactly the nested object.  (A condition whose
\* place in the output another entry of the same object also writes to is left
\* aside.)
C14_DottedPath ==
    (result.done /\ result.success) =>
      /\ DottedPathsRewritten(schema, input, result.data)
      /\ (/\ Len(input.ent) = 1
          /\ input.ent[1].key \in fieldNames(schema.fields)
          /\ RuleOf(schema, input.ent[1].key).kind = "string")
            => SameDocument(result.data,
                            Nested(split(RuleOf(schema, input.ent[1].key).path),
                                   input.ent[1].val))

\* the operator object of authorName, two operators in an order other than the
\* schema's, written whole under author.name inside $not
C14_Witness ==
    /\ result.done
    /\ result.success
    /\ input = LogicalNot(Obj(<<Entry("authorName",
                 Obj(<<Entry("$ne", Str("John")), Entry("$eq", Str("Jane"))>>))>>))
    /\ SameDocument(result.data,
          LogicalNot(Obj(<<Entry("author", Obj(<<Entry("name",
             Obj(<<Entry("$eq", Str("Jane")), Entry("$ne", Str("John"))>>))>>))>>)))

\* two paths that share author, written side by side
C14_WitnessSiblings ==
    /\ result.done
    /\ result.success
    /\ input = Obj(<<Entry("authorAge", Obj(<<Entry("$gte", Num(18))>>)),
                     Entry("authorName", Str("John"))>>)
    /\ SameDocument(result.data,
          Obj(<<Entry("author", Obj(<<Entry("name", Str("John")),
                                      Entry("age", Obj(<<Entry("$gte", Num(18))>>))>>))>>))

\* how many times a occurs in the sequence
CountIn(seq, a) == Cardinality({i \in DOMAIN seq : seq[i] = a})

\* the same calls, whatever the order
SameCalls(x, y) ==
    /\ Len(x) = Len(y)
    /\ \A i \in DOMAIN x : CountIn(x, x[i]) = CountIn(y, x[i])

\* the calls C15 expects for one condition on a callback field: one per
\* operator of an operator object, and one with $eq for anything else
ExpectedOfCondition(e) ==
    IF e.val.k = "object"
    THEN [i \in DOMAIN e.val.ent |->
            [field |-> e.key, operator |-> e.val.ent[i].key, value |-> e.val.ent[i].val]]
    ELSE <<[field |-> e.key, operator |-> "$eq", value |-> e.val]>>

\* the conditions of a document that are on callback fields, level by level
RECURSIVE CallbackConditions(_, _)
RECURSIVE CallbackConditionsOfEntries(_, _)
RECURSIVE CallbackConditionsOfItems(_, _)
CallbackConditionsOfItems(s, items) ==
    IF items = <<>>
    THEN <<>>
    ELSE CallbackConditions(s, Head(items)) \o CallbackConditionsOfItems(s, Tail(items))

CallbackConditionsOfEntries(s, entries) ==
    IF entries = <<>>
    THEN <<>>
    ELSE LET e == Head(entries) IN
           (IF e.key \in {"$and", "$or"}
            THEN CallbackConditionsOfItems(s, e.val.items)
            ELSE IF e.key = "$not"
            THEN CallbackConditions(s, e.val)
            ELSE IF RuleOf(s, e.key).kind = "callback"
            THEN <<e>>
            ELSE <<>>)
             \o CallbackConditionsOfEntries(s, Tail(entries))

CallbackConditions(s, v) == CallbackConditionsOfEntries(s, ObjectEntries(v))

\* ... and the calls C15 expects for them
RECURSIVE ExpectedOfConditions(_)
ExpectedOfConditions(conditions) ==
    IF conditions = <<>>
    THEN <<>>
    ELSE ExpectedOfCondition(Head(conditions)) \o ExpectedOfConditions(Tail(conditions))

ExpectedInvocations(s, v) == ExpectedOfConditions(CallbackConditions(s, v))

\* a Date instance given to a field that is not a date field (Zod takes it
\* for an operator object without keys)
DateOnOtherType(s, v) ==
    \E n \in Nodes(v, 0) : \E i \in DOMAIN n.obj.ent :
        /\ n.obj.ent[i].key \in fieldNames(s.fields)
        /\ n.obj.ent[i].val = DateObj
        /\ fieldOf(s.fields, n.obj.ent[i].key).type # "date"

\* C15: callback invocation.  For an accepted document the callbacks are
\* called, per condition on a callback field, exactly once per operator of an
\* operator object with {field, operator, value: its operand}, and exactly once
\* with $eq and the value itself for a bare value of the field's type (string,
\* number, boolean, date string, Date instance) and for null.
C15_CallbackInvocation ==
    (result.done /\ result.success /\ ~DateOnOtherType(schema, input)) =>
      SameCalls(invocations, ExpectedInvocations(schema, input))

\* the same, but for a Date instance given bare to a date field
C15_ExceptBareDateInstance ==
    (/\ result.done
     /\ result.success
     /\ \A n \in Nodes(input, 0) : \A i \in DOMAIN n.obj.ent : n.obj.ent[i].val # DateObj)
      => SameCalls(invocations, ExpectedInvocations(schema, input))

\* the value under key in what the callback returned for the last of the calls
\* that returned the key
LastReturned(fn, calls, key) ==
    LET returning == {i \in DOMAIN calls : key \in ObjectKeys(callback(fn, calls[i]))}
        last == CHOOSE i \in returning : \A j \in returning : j <= i
    IN GetProp(callback(fn, calls[last]), key)

\* out is the object in rewritten as C16 says, calls being the calls made for
\* the one condition of the document that is on a callback field: the keys of
\* every output object are those its own entries write, and where the
\* condition is, each key the calls returned holds what the last of them
\* returned for it
RECURSIVE MergedInOrder(_, _, _, _)
MergedInOrder(s, in, out, calls) ==
    /\ out.k = "object"
    /\ ObjectKeys(out) \subseteq UNION {WrittenKeys(s, in.ent[i]) : i \in DOMAIN in.ent}
    /\ \A i \in DOMAIN in.ent :
          LET e == in.ent[i] IN
            \/ Interferes(s, in, i)
            \/ CASE e.key \in {"$and", "$or"} ->
                       /\ HasProp(out, e.key)
                       /\ GetProp(out, e.key).k = "array"
                       /\ Len(GetProp(out, e.key).items) = Len(e.val.items)
                       /\ \A j \in DOMAIN e.val.items :
                             MergedInOrder(s, e.val.items[j], GetProp(out, e.key).items[j], calls)
                 [] e.key = "$not" ->
                       /\ HasProp(out, "$not")
                       /\ MergedInOrder(s, e.val, GetProp(out, "$not"), calls)
                 [] OTHER ->
                       RuleOf(s, e.key).kind = "callback" =>
                         LET fn == RuleOf(s, e.key).fn
                             returned == UNION {ObjectKeys(callback(fn, calls[c])) :
                                                  c \in DOMAIN calls}
                         IN /\ ObjectKeys(out) \ OthersWrite(s, in, i) = returned
                            /\ \A key \in returned :
                                  GetProp(out, key) = LastReturned(fn, calls, key)

\* C16: callback merge order.  In the output of an accepted document with one
\* condition on a callback field, what the callback returned is merged, call
\* after call, into the output object of the level of the condition: a key
\* returned by several calls holds the value of the last call, and no other
\* output object, above or below, receives a key from the callback.  (The
\* calls are made in the order of the operators in the validated value, $eq
\* before $ne before $in, not in the order the input wrote them.)
C16_CallbackMergeOrder ==
    (/\ result.done
     /\ result.success
     /\ Len(CallbackConditions(schema, input)) = 1)
      => MergedInOrder(schema, input, result.data, invocations)

\* two operators on the callback field under $not, both returning title: the
\* output holds the value of the second call
C16_Witness ==
    /\ result.done
    /\ result.success
    /\ input = LogicalNot(Obj(<<Entry("keyword",
                 Obj(<<Entry("$ne", Str("John")), Entry("$eq", Str("Jane"))>>))>>))
    /\ Len(invocations) = 2
    /\ invocations[2].operator = "$ne"
    /\ result.data = LogicalNot(Obj(<<Entry("title", Str("John"))>>))

\* out is the object in rewritten as C17 says: every condition on a field
\* without a rule is in out under the same key with the same value
RECURSIVE PlainFieldsCopied(_, _, _)
PlainFieldsCopied(s, in, out) ==
    /\ out.k = "object"
    /\ \A i \in DOMAIN in.ent :
          LET e == in.ent[i] IN
            \/ Interferes(s, in, i)
            \/ CASE e.key \in {"$and", "$or"} ->
                       /\ HasProp(out, e.key)
                       /\ GetProp(out, e.key).k = "array"
                       /\ Len(GetProp(out, e.key).items) = Len(e.val.items)
                       /\ \A j \in DOMAIN e.val.items :
                             PlainFieldsCopied(s, e.val.items[j], GetProp(out, e.key).items[j])
                 [] e.key = "$not" ->
                       /\ HasProp(out, "$not")
                       /\ PlainFieldsCopied(s, e.val, GetProp(out, "$not"))
                 [] OTHER ->
                       RuleOf(s, e.key).kind = "none" =>
                         /\ HasProp(out, e.key)
                         /\ SameDocument(GetProp(out, e.key), e.val)

C17_WitnessNoRule ==
    /\ result.done
    /\ result.success
    /\ ~schema.hasTransforms
    /\ schema.fields # <<>>
    /\ input = LogicalArray("$and", <<Obj(<<Entry("id", Num(1))>>),
                  Obj(<<Entry("id", Obj(<<Entry("$lte", Num(2)), Entry("$gte", Num(1))>>))>>)>>)

\* C18: rewrite only after acceptance.  The result of a rejected document
\* holds no output document and no callback has been called for any part of
\* it; whenever a callback has been called the document was accepted.
C18_RewriteAfterAcceptance ==
    result.done =>
      /\ ~result.success => (invocations = <<>> /\ "data" \notin DOMAIN result)
      /\ invocations # <<>> => result.success

\* a valid condition on a callback field beside an unregistered key: rejected,
\* the callback not called
C18_Witness ==
    /\ result.done
    /\ ~result.success
    /\ schema.hasTransforms
    /\ callbackReplacementMap(schema, "keyword")
    /\ fieldOf(schema.fields, "keyword").type = "string"
    /\ input = Obj(<<Entry("keyword", Str("John")), Entry("unknown", Num(1))>>)
    /\ invocations = <<>>

\* a valid condition on a callback field in an object with more conditions
\* than maxConditions: rejected by the refinement alone, the callback not called
C18_WitnessRefinement ==
    /\ result.done
    /\ ~result.success
    /\ schema.maxConditions = 1
    /\ callbackReplacementMap(schema, "keyword")
    /\ input = Obj(<<Entry("keyword", Str("John")), Entry("id", Num(1))>>)
    /\ invocations = <<>>

---------------------------------------------------------------------------
(* Properties of the builder (SpecBuilder).                                *)

Declarations(fields) == {fields[i] : i \in DOMAIN fields}

\* C19: last registration wins.  After any sequence of addField calls the
\* registry holds one declaration per name, and under the name of the last call
\* the declaration of that call, whole (type, flags, rule); a call leaves the
\* declarations of every other name, the set of other names and the limits as
\* they were, and the schema built afterwards validates by the last declaration.
C19_LastRegistrationWins ==
    /\ [](/\ Cardinality(fieldNames(fieldOptionsMap)) = Len(fieldOptionsMap)
          /\ added # NoField =>
                /\ added.field \in fieldNames(fieldOptionsMap)
                /\ fieldOf(fieldOptionsMap, added.field) = added)
    /\ [][(added' # added \/ fieldOptionsMap' # fieldOptionsMap) =>
            /\ fieldNames(fieldOptionsMap') = fieldNames(fieldOptionsMap) \cup {added'.field}
            /\ \A d \in Declarations(fieldOptionsMap) :
                  d.field # added'.field => d \in Declarations(fieldOptionsMap')
            /\ options' = options
            /\ schema' = schema]_vars

\* name registered as a string, then age, then name again as a number: one
\* declaration of name, the number one, still before age; the schema built
\* from it rejected {name: "John"}
C19_Witness ==
    /\ Len(fieldOptionsMap) = 2
    /\ fieldOptionsMap[2].field = "age"
    /\ added = Field("name", "number", FALSE, FALSE)
    /\ fieldOptionsMap[1] = added
    /\ result.done
    /\ ~result.success
    /\ input = Obj(<<Entry("name", Str("John"))>>)

\* C20: limit defaults.  Constructed with no override the builder has maxDepth
\* 5, maxConditions 20, maxOrBranches 5, maxArrayLength 100; with a partial
\* override each limit it sets has the given value and each limit it leaves
\* unset its default; build() hands the same four limits to the schema.
C20_LimitDefaults ==
    LET defaults == [maxDepth |-> 5, maxConditions |-> 20,
                     maxOrBranches |-> 5, maxArrayLength |-> 100]
    IN /\ override = <<>> => options = defaults
       /\ DOMAIN options = LimitNames
       /\ \A n \in LimitNames :
             options[n] = IF n \in DOMAIN override THEN override[n] ELSE defaults[n]
       /\ schema.built =>
             /\ schema.maxDepth = options.maxDepth
             /\ schema.maxConditions = options.maxConditions
             /\ schema.maxOrBranches = options.maxOrBranches
             /\ schema.maxArrayLength = options.maxArrayLength

\* an override of maxDepth and maxArrayLength alone, built
C20_Witness ==
    /\ schema.built
    /\ DOMAIN override = {"maxDepth", "maxArrayLength"}
    /\ schema.maxDepth = override.maxDepth
    /\ schema.maxArrayLength = override.maxArrayLength
    /\ schema.maxConditions = 20
    /\ schema.maxOrBranches = 5

---------------------------------------------------------------------------
(* Properties of a schema once built (SpecLifecycle).                      *)

\* what build() captures of a builder with the limits and the registry
Captured(limits, fields) ==
    [built |-> TRUE,
     maxDepth |-> limits.maxDepth,
     maxConditions |-> limits.maxConditions,
     maxOrBranches |-> limits.maxOrBranches,
     maxArrayLength |-> limits.maxArrayLength,
     fields |-> fields,
     hasTransforms |-> \E i \in DOMAIN fields : fields[i].replacement.kind # "none"]

\* the result of parsing doc with what a schema captured
Outcome(s, doc) ==
    IF createFilterSchema(s, 0, doc)
    THEN [done |-> TRUE, success |-> TRUE,
          data |-> IF s.hasTransforms
                   THEN applyReplacements(s, createFilterData(s, 0, doc))
                   ELSE createFilterData(s, 0, doc)]
    ELSE [done |-> TRUE, success |-> FALSE, error |-> createFilterIssues(s, 0, doc)]

\* C21: a built schema is fixed.  build() captures the registry and the limits
\* the builder has at that moment and changes neither; an addField after it,
\* of a new name or of a registered one, leaves the built schema as it was; and
\* every parse gives the result that the captured declarations and limits
\* determine, whatever the builder holds by then.  Two builds with no addField
\* in between capture the same and so behave the same.
C21_BuiltSchemaFixed ==
    [][/\ options' = options
       /\ (fieldOptionsMap' # fieldOptionsMap \/ added' # added) => schema' = schema
       /\ schema' # schema =>
             /\ fieldOptionsMap' = fieldOptionsMap
             /\ schema' = Captured(options, fieldOptionsMap)
       /\ (schema.built /\ schema = Captured(options, fieldOptionsMap)) => schema' = schema
       /\ (result' # result \/ input' # input) =>
             /\ schema' = schema
             /\ fieldOptionsMap' = fieldOptionsMap
             /\ result' = Outcome(schema, input')]_vars

\* name built as a string field, registered again as a number field, then
\* {name: "John"} parsed: accepted, though the registry would now reject it
C21_Witness ==
    /\ schema.built
    /\ schema.fields = <<Field("name", "string", FALSE, FALSE)>>
    /\ fieldOptionsMap = <<Field("name", "number", FALSE, FALSE)>>
    /\ input = Obj(<<Entry("name", Str("John"))>>)
    /\ result.done
    /\ result.success
    /\ ~Outcome(Captured(options, fieldOptionsMap), input).success

\* age registered after the build, then {age: 25} parsed: still rejected
C21_WitnessNewName ==
    /\ schema.built
    /\ fieldNames(schema.fields) = {"name"}
    /\ "age" \in fieldNames(fieldOptionsMap)
    /\ input = Obj(<<Entry("age", Num(25))>>)
    /\ result.done
    /\ ~result.success

---------------------------------------------------------------------------
(* Properties of the error of a rejected document (SpecErrors).            *)

\* the schema with one limit lifted out of reach of every document parsed
Lifted(s, limit) == [s EXCEPT ![limit] = 100]

\* the document is rejected, and surpassing the limit is all that rejects it
RejectedBecause(limit) ==
    /\ result.done
    /\ ~result.success
    /\ createFilterSchema(Lifted(schema, limit), 0, input)

\* the value an issue carries: the maximum of a too_big, the value in a message
Carried(issue) ==
    (IF "maximum" \in DOMAIN issue THEN {issue.maximum} ELSE {})
      \cup (IF "message" \in DOMAIN issue THEN {issue.message.value} ELSE {})

ListOperatorKeys == {"$in", "$nin", "$contains", "$overlap"}

\* the issue is a limit-exceeded one (a code that no unregistered key and no
\* value of the wrong type gets), names the limit and carries its value
Identifies(s, issue, limit) ==
    /\ issue.code \in {"too_big", "custom"}
    /\ s[limit] \in Carried(issue)
    /\ CASE limit = "maxConditions" ->
                 /\ issue.code = "custom"
                 /\ issue.message.template \in
                      {"Filter cannot have more than ${maxConditions} conditions",
                       "Filter cannot have more than ${maxConditions} field conditions"}
         [] limit = "maxOrBranches" ->
                 /\ issue.code = "too_big"
                 /\ issue.path # <<>>
                 /\ issue.path[Len(issue.path)] = "$or"
                 /\ issue.message.template =
                      "$or cannot have more than ${maxOrBranches} branches"
         [] limit = "maxArrayLength" ->
                 /\ issue.code = "too_big"
                 /\ issue.path # <<>>
                 /\ issue.path[Len(issue.path)] \in ListOperatorKeys
         [] limit = "maxDepth" -> TRUE

\* C22: limit violations are identified.  Whenever a document is rejected
\* because one of the four limits was surpassed, the error holds an issue of a
\* limit-exceeded kind that names the limit and carries its configured value.
C22_LimitIdentified ==
    \A limit \in LimitNames :
        RejectedBecause(limit) =>
            \E i \in DOMAIN result.error : Identifies(schema, result.error[i], limit)

\* the value at the path of an issue
RECURSIVE AtPath(_, _)
AtPath(v, path) ==
    IF path = <<>> THEN v
    ELSE IF v.k = "array"
    THEN AtPath(v.items[CHOOSE j \in DOMAIN v.items : ToString(j - 1) = Head(path)],
                Tail(path))
    ELSE AtPath(GetProp(v, Head(path)), Tail(path))

\* the limit that the value an issue is about does surpass
Surpassed(s, issue, limit, v) ==
    LET at == AtPath(v, issue.path) IN
      CASE limit = "maxConditions" ->
                 at.k = "object" /\ Cardinality(ObjectKeys(at) \ LogicalKeys) > s.maxConditions
        [] limit = "maxOrBranches" -> at.k = "array" /\ Len(at.items) > s.maxOrBranches
        [] limit = "maxArrayLength" -> at.k = "array" /\ Len(at.items) > s.maxArrayLength

\* C22 as amended: the conditions, $or and list limits are identified, and
\* only they; the depth limit is reported as unrecognized keys.  A document
\* rejected because maxConditions, maxOrBranches or maxArrayLength was
\* surpassed has in its error an issue that names the limit and carries its
\* value; every too_big or custom issue of any error is about a value that
\* surpasses the limit it names; and a document rejected because maxDepth was
\* surpassed has only unrecognized_keys issues, each listing combinator keys.
C22_LimitIdentifiedExceptDepth ==
    /\ \A limit \in LimitNames \ {"maxDepth"} :
          RejectedBecause(limit) =>
              \E i \in DOMAIN result.error : Identifies(schema, result.error[i], limit)
    /\ (result.done /\ ~result.success) =>
          \A i \in DOMAIN result.error :
              result.error[i].code \in {"too_big", "custom"} =>
                  \E limit \in LimitNames \ {"maxDepth"} :
                      /\ Identifies(schema, result.error[i], limit)
                      /\ Surpassed(schema, result.error[i], limit, input)
    /\ RejectedBecause("maxDepth") =>
          /\ result.error # <<>>
          /\ \A i \in DOMAIN result.error :
                /\ result.error[i].code = "unrecognized_keys"
                /\ result.error[i].keys # <<>>
                /\ \A k \in DOMAIN result.error[i].keys :
                      result.error[i].keys[k] \in LogicalKeys

\* a list of maxArrayLength + 1 items under $in, two levels down, rejected
\* with one too_big issue
C22_Witness ==
    /\ result.done
    /\ ~result.success
    /\ schema.maxDepth = 2
    /\ schema.maxArrayLength = 2
    /\ input = WrapN("$and", 2, Obj(<<Entry("tags", Obj(<<Entry("$in",
                   Arr(Rep(Str("admin"), 3)))>>))>>))
    /\ Len(result.error) = 1
    /\ result.error[1].code = "too_big"
    /\ result.error[1].maximum = 2
    /\ result.error[1].path = <<"$and", "0", "$and", "0", "tags", "$in">>

\* three conditions against maxConditions 2, and three $or branches against
\* maxOrBranches 2, each rejected with the issue of its limit
C22_WitnessConditions ==
    /\ RejectedBecause("maxConditions")
    /\ input = Obj(ErrorConditions)
    /\ result.error = <<custom(Message(
           "Filter cannot have more than ${maxConditions} field conditions", 2))>>

C22_WitnessOrBranches ==
    /\ RejectedBecause("maxOrBranches")
    /\ schema.maxOrBranches = 2
    /\ Len(result.error) = 1
    /\ result.error[1].code = "too_big"
    /\ result.error[1].path = <<"$or">>

\* one combinator too deep
C22_WitnessDepth ==
    /\ RejectedBecause("maxDepth")
    /\ schema.maxDepth = 1
    /\ input = WrapN("$not", 2, Obj(<<Entry("a", Str("John"))>>))
    /\ result.error = <<[unrecognized_keys(<<"$not">>) EXCEPT !.path = <<"$not">>]>>

\* the entry alone, at the depth, is rejected whatever maxConditions is
EntryViolates(s, depth, e) ==
    ~createFilterSchema(Lifted(s, "maxConditions"), depth, Obj(<<e>>))

IndexOf(name) == CHOOSE j \in 0..(MaxLimit + 3) : ToString(j) = name

\* the issues under the prefix, with paths relative to it
Below(issues, prefix) ==
    LET under == SelectSeq(issues, LAMBDA i :
                     /\ Len(i.path) >= Len(prefix)
                     /\ SubSeq(i.path, 1, Len(prefix)) = prefix)
    IN [n \in DOMAIN under |->
          [under[n] EXCEPT !.path = SubSeq(@, Len(prefix) + 1, Len(@))]]

\* where the issue comes in the order of an object's shape: its properties in
\* shape order, then the unrecognized keys, then the refinement
RankInObject(shape, issue) ==
    IF issue.path # <<>>
    THEN CHOOSE n \in DOMAIN shape : shape[n] = issue.path[1]
    ELSE IF issue.code = "unrecognized_keys" THEN Len(shape) + 1 ELSE Len(shape) + 2

\* in an array: its elements by index, then the check of its length
RankInArray(items, issue) ==
    IF issue.path # <<>> THEN IndexOf(issue.path[1]) ELSE Len(items)

\* every violating key of the object v and, below it, of every object under
\* a combinator has an issue, and the issues come in schema order
RECURSIVE Aggregated(_, _, _, _)
Aggregated(s, depth, v, issues) ==
    LET shape == shapeOrder(s, depth) IN
      /\ \A n \in DOMAIN ObjectEntries(v) :
            LET e == ObjectEntries(v)[n] IN
              EntryViolates(s, depth, e) =>
                IF e.key \in shapeKeys(s, depth)
                THEN \E i \in DOMAIN issues :
                        issues[i].path # <<>> /\ issues[i].path[1] = e.key
                ELSE \E i \in DOMAIN issues :
                        /\ issues[i].code = "unrecognized_keys"
                        /\ issues[i].path = <<>>
                        /\ \E k \in DOMAIN issues[i].keys : issues[i].keys[k] = e.key
      /\ \A i, j \in DOMAIN issues :
            i < j => RankInObject(shape, issues[i]) <= RankInObject(shape, issues[j])
      /\ \A n \in DOMAIN ObjectEntries(v) :
            LET e == ObjectEntries(v)[n] IN
              (e.key \in shapeKeys(s, depth) \cap LogicalKeys) =>
                IF e.key = "$not"
                THEN e.val.k = "object" =>
                        Aggregated(s, depth + 1, e.val, Below(issues, <<"$not">>))
                ELSE e.val.k = "array" =>
                        LET inArray == Below(issues, <<e.key>>) IN
                          /\ \A i, j \in DOMAIN inArray :
                                i < j => RankInArray(e.val.items, inArray[i])
                                           <= RankInArray(e.val.items, inArray[j])
                          /\ \A j \in DOMAIN e.val.items :
                                /\ ~createFilterSchema(s, depth + 1, e.val.items[j]) =>
                                      \E i \in DOMAIN inArray :
                                          /\ inArray[i].path # <<>>
                                          /\ inArray[i].path[1] = ToString(j - 1)
                                /\ e.val.items[j].k = "object" =>
                                      Aggregated(s, depth + 1, e.val.items[j],
                                                 Below(inArray, <<ToString(j - 1)>>))

\* the violating entries of the document's top object, in the document's order
Violating(s, v) ==
    SelectSeq(ObjectEntries(v), LAMBDA e : EntryViolates(s, 0, e))

\* the issue is about the key: at or below it, or listing it as unrecognized
About(issue, key) ==
    \/ issue.path # <<>> /\ issue.path[1] = key
    \/ /\ issue.code = "unrecognized_keys"
       /\ issue.path = <<>>
       /\ issue.keys[1] = key

\* C23: single first violation.  A rejected document surfaces one violation
\* only, the first in document traversal order, whatever other keys and
\* branches violate.
C23_SingleFirstViolation ==
    (result.done /\ ~result.success) =>
        /\ Len(result.error) = 1
        /\ Violating(schema, input) # <<>> =>
              About(result.error[1], Violating(schema, input)[1].key)

\* C23 as amended: the violations are aggregated.  The rejection is one error
\* that holds at least one issue for every violating key of every object the
\* schema walks and for every violating element of every $and and $or array,
\* in the order of the schema ($and, $or, $not, the fields in registration
\* order, then the unrecognized keys in one issue, then the conditions limit;
\* array elements by index, then the array's length), not in the order of the
\* document's keys.
C23_ViolationsAggregated ==
    (result.done /\ ~result.success) =>
        /\ result.error # <<>>
        /\ Aggregated(schema, 0, input, result.error)

\* b before a in the document, both of the wrong type: two issues, a's first
C23_Witness ==
    /\ result.done
    /\ ~result.success
    /\ input = Obj(<<Entry("b", Str("John")), Entry("a", Num(1))>>)
    /\ Len(result.error) = 2
    /\ result.error[1].path = <<"a">>
    /\ result.error[2].path = <<"b">>

\* two branches of an $or, each with a violation of its own: both reported
C23_WitnessBranches ==
    /\ result.done
    /\ ~result.success
    /\ input = LogicalArray("$or", <<Obj(<<Entry("a", Num(1))>>), Obj(<<Entry("z", Num(1))>>)>>)
    /\ Len(result.error) = 2
    /\ result.error[1].path = <<"$or", "0", "a">>
    /\ result.error[2].path = <<"$or", "1">>
    /\ result.error[2].code = "unrecognized_keys"

---------------------------------------------------------------------------
(* Properties of fulltext fields (SpecOperators).                          *)

StringOrNull(v) == v.k \in {"string", "null"}

C24_WitnessEq ==
    /\ result.done
    /\ result.success
    /\ TheField.type = "string"
    /\ TheField.fulltext
    /\ input = LogicalNot(Obj(<<Entry("f", Obj(<<Entry("$eq", Str("John"))>>))>>))
    /\ result.data = input

\* C25: automatic conversion to $fulltext.  On a string field with fulltext:
\* true, parsing a bare string, or $eq over a string, outputs the field with
\* {$fulltext: the string}.
C25_FulltextConversion ==
    (/\ result.done
     /\ TheField.type = "string"
     /\ TheField.fulltext
     /\ input = Innermost(input)
     /\ \/ TheValue.k = "string"
        \/ IsSingle(TheValue, {"$eq"}) /\ OperandOf(TheValue).k = "string")
      => /\ result.success
         /\ result.data =
              Obj(<<Entry("f", Obj(<<Entry("$fulltext",
                     IF TheValue.k = "string" THEN TheValue ELSE OperandOf(TheValue))>>))>>)

---------------------------------------------------------------------------
(* Properties of setNestedValue (SpecNested).                              *)

\* v has a value at the path, and the value
RECURSIVE HasAt(_, _)
HasAt(v, parts) ==
    \/ parts = <<>>
    \/ HasProp(v, Head(parts)) /\ HasAt(GetProp(v, Head(parts)), Tail(parts))

RECURSIVE At(_, _)
At(v, parts) == IF parts = <<>> THEN v ELSE At(GetProp(v, Head(parts)), Tail(parts))

PropKeys(v) == {Props(v)[i].key : i \in DOMAIN Props(v)}

\* an object in the sense of typeof, and not null
IsObjectValue(v) == v.k \in {"object", "array", "date"}

\* every segment of the prefix is there and is an object
ObjectsAlong(v, prefix) ==
    \A k \in 1..Len(prefix) :
        /\ HasAt(v, SubSeq(prefix, 1, k))
        /\ IsObjectValue(At(v, SubSeq(prefix, 1, k)))

\* what one call setNestedValue(before, parts, value) has made of the object
WrittenAt(before, after, parts, value) ==
    /\ HasAt(after, parts)
    /\ At(after, parts) = value
    /\ \A k \in 0..(Len(parts) - 1) :
          LET prefix == SubSeq(parts, 1, k)
              next == parts[k + 1]
          IN IF ObjectsAlong(before, prefix)
             THEN /\ PropKeys(At(after, prefix)) = PropKeys(At(before, prefix)) \cup {next}
                  /\ \A key \in PropKeys(At(before, prefix)) \ {next} :
                        GetProp(At(after, prefix), key) = GetProp(At(before, prefix), key)
                  /\ At(after, prefix).k = At(before, prefix).k
             ELSE /\ At(after, prefix).k = "object"
                  /\ PropKeys(At(after, prefix)) = {next}

\* the paths of the calls are distinct and none is a prefix of another
Unrelated(calls) ==
    \A i, j \in DOMAIN calls :
        i # j => LET a == split(calls[i].path)
                     b == split(calls[j].path)
                 IN ~(Len(a) <= Len(b) /\ SubSeq(b, 1, Len(a)) = a)

\* C26: setNestedValue.  A call leaves the value at the dot-separated path of
\* the object it was given: a one-segment path sets the key itself; a segment
\* on the way that is missing, null or no object becomes a new object holding
\* the rest of the path alone; an object on the way is kept with all its other
\* keys; a value already at the last key is overwritten; and every key outside
\* the path is as it was.  After any calls with distinct paths, none a prefix
\* of another, every written value is at its path.
C26_SetNestedValue ==
    /\ [][writes' # writes =>
            LET call == writes'[Len(writes')] IN
              /\ writes' = Append(writes, call)
              /\ WrittenAt(object, object', split(call.path), call.value)]_vars
    /\ [](Unrelated(writes) =>
            \A i \in DOMAIN writes :
                /\ HasAt(object, split(writes[i].path))
                /\ At(object, split(writes[i].path)) = writes[i].value)

\* a.b.c, author.name and title written into an object that had null at a.b,
\* 1 at author and no title: all three there, x beside a.b kept
C26_Witness ==
    /\ Len(writes) = 3
    /\ {writes[i].path : i \in DOMAIN writes} = {"a.b.c", "author.name", "title"}
    /\ HasAt(object, <<"a", "x">>)
    /\ At(object, <<"a", "b", "c">>) = writes[1].value
    /\ PropKeys(At(object, <<"author">>)) = {"name"}

\* author.name written over Jane, age beside it kept
C26_WitnessOverwrite ==
    /\ Len(writes) = 1
    /\ writes[1] = [path |-> "author.name", value |-> Str("John")]
    /\ object = Obj(<<Entry("author", Obj(<<Entry("name", Str("John")), Entry("age", Num(30))>>))>>)

---------------------------------------------------------------------------
(* Properties of the $and array (SpecErrors).                              *)

\* the number of field conditions in all the objects of a document
RECURSIVE SumOver(_, _)
SumOver(f, set) ==
    IF set = {} THEN 0
    ELSE LET x == CHOOSE y \in set : TRUE IN f[x] + SumOver(f, set \ {x})

\* the objects of a document with the place of each, so that equal objects
\* in different places count apart
RECURSIVE Placed(_, _)
Placed(v, place) ==
    IF v.k # "object" THEN {}
    ELSE {[place |-> place, obj |-> v]}
           \cup UNION {LET e == v.ent[i] IN
                         IF e.key \in {"$and", "$or"} /\ e.val.k = "array"
                         THEN UNION {Placed(e.val.items[j], place \o <<i, j>>) :
                                       j \in DOMAIN e.val.items}
                         ELSE IF e.key = "$not"
                         THEN Placed(e.val, place \o <<i>>)
                         ELSE {}
                       : i \in DOMAIN v.ent}

TotalConditions(v) ==
    LET placed == Placed(v, <<>>) IN
      SumOver([p \in placed |-> Cardinality(ObjectKeys(p.obj) \ LogicalKeys)], placed)

\* C27: $and is bounded by no limit.  At every level below maxDepth an object
\* holding only an $and array whose elements are each accepted one level down
\* is accepted, whatever the length of the array; so a document whose only key
\* is such an $and is accepted, also with more than maxOrBranches elements.
C27_AndUnbounded ==
    result.done =>
      /\ \A n \in Nodes(input, 0) :
            \A i \in DOMAIN n.obj.ent :
                LET e == n.obj.ent[i] IN
                  (/\ e.key = "$and"
                   /\ e.val.k = "array"
                   /\ n.level < schema.maxDepth
                   /\ \A j \in DOMAIN e.val.items :
                         createFilterSchema(schema, n.level + 1, e.val.items[j]))
                    => createFilterSchema(schema, n.level, Obj(<<e>>))
      /\ (/\ ObjectKeys(input) = {"$and"}
          /\ input.ent[1].val.k = "array"
          /\ schema.maxDepth >= 1
          /\ \A j \in DOMAIN input.ent[1].val.items :
                createFilterSchema(schema, 1, input.ent[1].val.items[j]))
            => result.success

\* an $and of MaxLimit + 1 elements under $not, accepted: longer than
\* maxOrBranches allows an $or, and more conditions in all than any limit
C27_Witness ==
    /\ result.done
    /\ result.success
    /\ input = LogicalNot(LogicalArray("$and",
                   Rep(Obj(SubSeq(ErrorConditions, 1, 2)), MaxLimit + 1)))
    /\ \A limit \in LimitNames : TotalConditions(input) > schema[limit]

\* the same length, accepted under $and and rejected under $or
C27_WitnessTop ==
    /\ result.done
    /\ result.success
    /\ ObjectKeys(input) = {"$and"}
    /\ Len(input.ent[1].val.items) > schema.maxOrBranches
    /\ ~createFilterSchema(schema, 0, Obj(<<Entry("$or", input.ent[1].val)>>))

---------------------------------------------------------------------------
(* Fields whose places in the output meet (SpecShared).                    *)

\* the place of the output a condition on the field is written to
Destination(s, key) ==
    IF RuleOf(s, key).kind = "string" /\ RuleOf(s, key).path # ""
    THEN split(RuleOf(s, key).path)
    ELSE <<key>>

\* every field of the schema has no rule or a string rule
OnlyDottedPaths(s) ==
    \A i \in DOMAIN s.fields : s.fields[i].replacement.kind \in {"none", "string"}

\* out holds the operand of every field condition of the object in at its
\* destination, at every level
RECURSIVE OperandsKept(_, _, _)
OperandsKept(s, in, out) ==
    /\ out.k = "object"
    /\ \A i \in DOMAIN ObjectEntries(in) :
          LET e == in.ent[i] IN
            CASE e.key \in {"$and", "$or"} ->
                    /\ HasProp(out, e.key)
                    /\ GetProp(out, e.key).k = "array"
                    /\ Len(GetProp(out, e.key).items) = Len(e.val.items)
                    /\ \A j \in DOMAIN e.val.items :
                          OperandsKept(s, e.val.items[j], GetProp(out, e.key).items[j])
              [] e.key = "$not" ->
                    /\ HasProp(out, "$not")
                    /\ OperandsKept(s, e.val, GetProp(out, "$not"))
              [] OTHER ->
                    /\ HasPath(out, Destination(s, e.key))
                    /\ SameDocument(GetPath(out, Destination(s, e.key)), e.val)

\* the objects of the same entries as obj, in every order
Reordered(obj) ==
    {Obj([i \in DOMAIN obj.ent |-> obj.ent[f[i]]]) :
       f \in {g \in [DOMAIN obj.ent -> DOMAIN obj.ent] :
                \A i, j \in DOMAIN obj.ent : g[i] = g[j] => i = j}}

\* C28: no condition is lost by dotted-path rewriting.  For every accepted
\* document whose fields have no rule or a dotted-path rule, the output holds
\* the operand of every field condition at its destination (the field's own
\* name, or the dotted path), and the output is the same for every order of
\* the keys of the input object, also when a field without a rule is named
\* as the first part of another field's path, or one path begins another.
C28_NoConditionLost ==
    (result.done /\ result.success /\ OnlyDottedPaths(schema)) =>
      /\ OperandsKept(schema, input, result.data)
      /\ \A other \in Reordered(input) :
            /\ Outcome(schema, other).success
            /\ SameDocument(Outcome(schema, other).data, result.data)

\* C29: the rewrite leaves the validated document unchanged.  After the
\* transform of an accepted document has returned, every object of the
\* document it was handed (operator objects that were put into the output by
\* reference and then reached by a dotted-path write too) has the keys and
\* values it had before the call.
C29_ValidatedUnchanged ==
    (result.done /\ result.success /\ schema.hasTransforms) =>
      validated = createFilterData(schema, 0, input)

---------------------------------------------------------------------------
(* Acceptance and the rewrite rules (SpecRewrite).                         *)

RuleChoices == {NoReplacement, StringRule("author.name"), CallbackRule("title")}

\* what build() captures of the builders with the limits, names, types and
\* flags of s, whatever the rules of their fields
RuleVariants(s) ==
    {Captured(s, [i \in DOMAIN s.fields |-> [s.fields[i] EXCEPT !.replacement = rules[i]]]) :
       rules \in [DOMAIN s.fields -> RuleChoices]}

\* C30: rewrite rules do not affect acceptance.  Two validators built from
\* the same limits and the same field names, types and array and fulltext
\* flags, differing only in which fields carry a dotted-path or callback
\* rule, accept the same documents, and reject the others for the same
\* issues at the same places, at every level.
C30_RulesDoNotDecide ==
    result.done =>
      \A other \in RuleVariants(schema) :
         /\ createFilterSchema(other, 0, input) = result.success
         /\ ~result.success => createFilterIssues(other, 0, input) = result.error

\* a document accepted under a callback rule and a dotted path, two levels
\* down, is accepted with no rule at all, and only the outputs differ
C30_Witness ==
    /\ result.done
    /\ result.success
    /\ {"keyword", "authorName"} \subseteq fieldNames(schema.fields)
    /\ RuleOf(schema, "keyword").kind = "callback"
    /\ RuleOf(schema, "authorName").kind = "string"
    /\ \E i \in DOMAIN input.ent : input.ent[i].key = "$or"
    /\ \E other \in RuleVariants(schema) :
          /\ ~other.hasTransforms
          /\ Outcome(other, input).success
          /\ ~SameDocument(Outcome(other, input).data, result.data)

\* a document rejected under a callback rule is rejected with no rule
C30_WitnessRejected ==
    /\ result.done
    /\ ~result.success
    /\ "keyword" \in fieldNames(schema.fields)
    /\ RuleOf(schema, "keyword").kind = "callback"
    /\ \E i \in DOMAIN input.ent : input.ent[i].key = "keyword"
    /\ \E other \in RuleVariants(schema) :
          ~other.hasTransforms /\ ~createFilterSchema(other, 0, input)



====
